---- MODULE Spec2Model ----
(***************************************************************************)
(* Skyrim Sentinel: the hybrid verifier (remote first, local cache as the  *)
(* fallback), the SQLite local cache and the golden-set loader.            *)
(*   sentinel-client/api_client.py   SentinelClient, HybridVerifier        *)
(*   sentinel-client/local_cache.py  LocalCache                            *)
(*   sentinel-client/ui/app.py       SentinelApp (the scan thread)         *)
(*   tools/hasher.py                 scan_directory, export_for_kv         *)
(* A string that the code lowercases (a SHA-256 digest) is a sequence of   *)
(* one-character strings, so that str.lower() is modelled by what it does. *)
(* JSON / Python scalars that may be absent are tagged values.             *)
(***************************************************************************)
EXTENDS Integers, Sequences, FiniteSets, TLC

VARIABLES
  rows,         \* the rows of table `hashes` of the cache database
  last_source,  \* HybridVerifier._last_source
  pc,           \* "idle": no call in progress; "done": a call has ended;
                \* "reading": a get_batch is between two statements
  op,           \* the call that ended: "verify", "load", "resync", "get_batch",
                \* "clear" (idle: "none", or "synced" after a sync_cache)
  hashes,       \* the argument of verify or get_batch
  dataset,      \* load_from_golden_set's input: the golden-set file
  env,          \* what the outside answered during the call (wire, registry, row order)
  raised,       \* the exception the call ended with, "none" when it returned
  result,       \* the ScanResponse verify returned, the dict get_batch returned
  ret,          \* the int load_from_golden_set returned
  calls,        \* the subsystem calls the call made, in order
  before,       \* the rows of the table when the last sync_cache began
  rd,           \* the get_batch in progress: the chunk it selects next, its
                \* results so far, the table versions committed while it runs
  selected_path,  \* SentinelApp.selected_path: whether a folder is chosen
  is_scanning,    \* SentinelApp.is_scanning
  scan_btn,       \* the state of the Scan button: "normal" or "disabled"
  events,         \* the callbacks given to after(0, ...) that configure the
                  \* Scan button, not yet run by the main loop
  threads         \* the scan threads started so far: where each one is in
                  \* _scan_thread, and what it has done

corevars == <<rows, last_source, pc, op, hashes, dataset, env, raised, result,
              ret, calls, before, rd>>

guivars == <<selected_path, is_scanning, scan_btn, events, threads>>

vars == <<corevars, guivars>>

\* ------------------------------------------------------------------ bounds

\* the longest hash list verify is called with
MaxBatch == 2
\* the most plugins in a golden-set file, and the most file entries in all of it
MaxEntries == 2
\* the most files in a directory tree the hasher scans
MaxFiles == 2
\* the most scans started in the window
MaxScans == 2

\* ------------------------------------------------------------ scalar values

Missing == [k |-> "missing"]
Null == [k |-> "null"]
Val(v) == [k |-> "val", v |-> v]

\* dict.get(key): the value, or None when the key is missing
DictGet(x) == IF x.k = "missing" THEN Null ELSE x

\* a mutant of dict.get(key, default): the default is not used
DictGetNoDefault(x, d) == IF x.k = "missing" THEN Null ELSE x

\* dict.get(key, default)
DictGetDefault(x, d) == IF x.k = "missing" THEN d ELSE x

\* a mutant of the truth test: `is not None`, the empty string passes
TruthyNotNone(x) == x.k = "val"

\* Python truth of an optional string: None and "" are false
Truthy(x) == x.k = "val" /\ x.v # <<>>

\* ------------------------------------------------------------------ hashes

\* str.lower() on one character of a hexadecimal digest
LowerChar(c) ==
  CASE c = "A" -> "a"
    [] c = "B" -> "b"
    [] c = "C" -> "c"
    [] OTHER -> c

\* str.lower()
Lower(s) == [i \in 1..Len(s) |-> LowerChar(s[i])]

\* [h.lower() for h in hashes]
LowerAll(hs) == [i \in 1..Len(hs) |-> Lower(hs[i])]

\* the digests callers and datasets use: one digest in lower, upper and mixed
\* case, and a second digest in lower and upper case
HashInputs ==
  { <<"a","b">>, <<"A","B">>, <<"a","B">>, <<"c","1">>, <<"C","1">> }

NormHashes == { Lower(h) : h \in HashInputs }

\* sequences over S of length at most n
SeqUpTo(S, n) == UNION { [1..k -> S] : k \in 0..n }

\* the elements of a sequence
Range(s) == { s[i] : i \in 1..Len(s) }

\* -------------------------------------------------- local cache (SQLite)

\* None, where a CachedPlugin may stand
None == [k |-> "none"]

\* row -> CachedPlugin(name, nexus_id, filename, status)
CachedPlugin(row) ==
  [k |-> "plugin", name |-> row.name, nexus_id |-> row.nexus_id,
   filename |-> row.filename, status |-> row.status]

\* the position of x in the sequence s, 0 when it is not there
IndexOf(s, x) ==
  IF \E i \in 1..Len(s) : s[i] = x
  THEN CHOOSE i \in 1..Len(s) : s[i] = x /\ \A j \in 1..(i - 1) : s[j] # x
  ELSE 0

\* a set of rows as a sequence, in some order
RECURSIVE SetToSeq(_)
SetToSeq(S) ==
  IF S = {} THEN <<>>
  ELSE LET r == CHOOSE r \in S : TRUE IN <<r>> \o SetToSeq(S \ {r})

\* the rows a SELECT without ORDER BY yields: row order is the engine's, here
\* the order the keys have in `order`
RECURSIVE RowsInOrder(_, _)
RowsInOrder(S, order) ==
  IF order = <<>> THEN SetToSeq(S)
  ELSE LET first == { r \in S : Lower(r.sha256) = Head(order) }
       IN SetToSeq(first) \o RowsInOrder(S \ first, Tail(order))

\* SELECT ... FROM hashes WHERE sha256 IN (chunk)
SelectIn(tbl, chunk, order) ==
  RowsInOrder({ r \in tbl : r.sha256 \in Range(chunk) }, order)

\* results[key] = val on a Python dict (insertion-ordered): a present key
\* keeps its place, a new key goes last
DictSet(d, key, val) ==
  LET i == IndexOf([j \in 1..Len(d) |-> d[j].key], key)
  IN IF i = 0 THEN Append(d, [key |-> key, val |-> val])
     ELSE [d EXCEPT ![i] = [key |-> key, val |-> val]]

\* key in results
DictHas(d, key) == \E j \in 1..Len(d) : d[j].key = key

\* results[key]
DictAt(d, key) == d[IndexOf([j \in 1..Len(d) |-> d[j].key], key)].val

\* LocalCache.get: SELECT ... WHERE sha256 = lower(sha256); fetchone()
CacheGet(tbl, sha256) ==
  LET hit == { r \in tbl : r.sha256 = Lower(sha256) }
  IN IF hit = {} THEN None ELSE CachedPlugin(CHOOSE r \in hit : TRUE)

\* chunk_size of get_batch
chunk_size == 500

\* for row in cursor: results[row["sha256"]] = CachedPlugin(...)
RECURSIVE StoreRows(_, _)
StoreRows(results, rs) ==
  IF rs = <<>> THEN results
  ELSE StoreRows(DictSet(results, Head(rs).sha256, CachedPlugin(Head(rs))), Tail(rs))

\* a mutant of the chunk loop: only the first chunk is selected
BatchChunksFirstOnly(tbl, normalized, order, i, results) ==
  LET hi == IF chunk_size < Len(normalized) THEN chunk_size ELSE Len(normalized)
  IN StoreRows(results, SelectIn(tbl, SubSeq(normalized, 1, hi), order))

\* for i in range(0, len(normalized), chunk_size): one SELECT per chunk
RECURSIVE BatchChunks(_, _, _, _, _)
BatchChunks(tbl, normalized, order, i, results) ==
  IF i >= Len(normalized) THEN results
  ELSE LET hi == IF i + chunk_size < Len(normalized)
                 THEN i + chunk_size ELSE Len(normalized)
           chunk == SubSeq(normalized, i + 1, hi)
       IN BatchChunks(tbl, normalized, order, i + chunk_size,
                      StoreRows(results, SelectIn(tbl, chunk, order)))

\* a mutant of the fill: the hashes not found get no key
FillNoneSkip(results, normalized) == results

\* for h in normalized: if h not in results: results[h] = None
\* (every hash that has no key yet gets one, in the order of its first
\* place in normalized; written without recursion, batches are long)
FillNone(results, normalized) ==
  LET keys == { results[j].key : j \in 1..Len(results) }
      absent == { IndexOf(normalized, h) : h \in Range(normalized) \ keys }
      nth(k) == CHOOSE i \in absent : Cardinality({ j \in absent : j < i }) = k - 1
  IN results \o [k \in 1..Cardinality(absent) |->
                  [key |-> normalized[nth(k)], val |-> None]]

\* a mutant of the normalization in get_batch: the hashes as given
BatchNormalizedAsGiven(hs) == hs

\* normalized = [h.lower() for h in hashes]
BatchNormalized(hs) == LowerAll(hs)

\* LocalCache.get_batch: the dict, as its items in order
GetBatch(tbl, hs, order) ==
  LET normalized == BatchNormalized(hs)
  IN FillNone(BatchChunks(tbl, normalized, order, 0, <<>>), normalized)

\* ------------------------------------------------------ golden-set loader

\* a mutant of the upsert: a table without the primary key, a plain INSERT
InsertPlain(tbl, row) == tbl \cup {row}

\* a mutant of the upsert: a plain INSERT into a table without the primary
\* key, every insert a row of its own (the n-th copy of a key is marked n)
InsertDuplicate(tbl, row) ==
  tbl \cup { [sha256 |-> row.sha256, name |-> row.name, nexus_id |-> row.nexus_id,
              filename |-> row.filename, status |-> row.status,
              copy |-> Cardinality({ r \in tbl : r.sha256 = row.sha256 })] }

\* a mutant of the upsert: INSERT OR IGNORE, a stored record stays
InsertOrIgnore(tbl, row) ==
  IF \E r \in tbl : r.sha256 = row.sha256 THEN tbl ELSE tbl \cup {row}

\* INSERT OR REPLACE INTO hashes: sha256 is the PRIMARY KEY
InsertOrReplace(tbl, row) ==
  { r \in tbl : r.sha256 # row.sha256 } \cup {row}

\* a mutant of the stored key: the digest as the dataset spells it
StoredKeyAsGiven(sha256) == sha256

\* the key the loader stores: sha256.lower()
StoredKey(sha256) == Lower(sha256)

\* the loop body for one file entry of one plugin; st is the transaction so
\* far: [tbl, count, raised]
LoadEntry(st, plugin, file_entry) ==
  LET sha256 == DictGet(file_entry.sha256)
  IN IF st.raised # "none" \/ ~Truthy(sha256) THEN st
     ELSE IF plugin.name.k = "missing" \/ plugin.nexusId.k = "missing"
     THEN [st EXCEPT !.raised = "KeyError"]
     ELSE IF plugin.name.k = "null" \/ plugin.nexusId.k = "null"
     THEN [st EXCEPT !.raised = "IntegrityError"]
     ELSE [st EXCEPT
             !.tbl = InsertOrReplace(st.tbl,
                       [sha256 |-> StoredKey(sha256.v),
                        name |-> plugin.name.v,
                        nexus_id |-> plugin.nexusId.v,
                        filename |-> DictGet(file_entry.filename),
                        status |-> DictGetDefault(file_entry.status, Val("verified"))]),
             !.count = st.count + 1]

\* for file_entry in plugin.get("files", [])
RECURSIVE LoadFiles(_, _, _)
LoadFiles(st, plugin, files) ==
  IF files = <<>> THEN st
  ELSE LoadFiles(LoadEntry(st, plugin, Head(files)), plugin, Tail(files))

\* for plugin in data.get("plugins", [])
RECURSIVE LoadPlugins(_, _)
LoadPlugins(st, plugins) ==
  IF plugins = <<>> THEN st
  ELSE LoadPlugins(LoadFiles(st, Head(plugins), Head(plugins).files), Tail(plugins))

\* a mutant of the loader: the table is emptied before the dataset is loaded
LoadReplacingTable(tbl, file) ==
  IF file.file = "missing"
  THEN [tbl |-> tbl, count |-> 0, raised |-> "FileNotFoundError"]
  ELSE IF file.file = "malformed"
  THEN [tbl |-> tbl, count |-> 0, raised |-> "JSONDecodeError"]
  ELSE LET st == LoadPlugins([tbl |-> {}, count |-> 0, raised |-> "none"],
                             file.plugins)
       IN IF st.raised = "none" THEN st
          ELSE [tbl |-> tbl, count |-> 0, raised |-> st.raised]

\* a mutant of the loader: no rollback, the rows upserted before an error
\* stay
LoadNoRollback(tbl, file) ==
  IF file.file = "missing"
  THEN [tbl |-> tbl, count |-> 0, raised |-> "FileNotFoundError"]
  ELSE IF file.file = "malformed"
  THEN [tbl |-> tbl, count |-> 0, raised |-> "JSONDecodeError"]
  ELSE LET st == LoadPlugins([tbl |-> tbl, count |-> 0, raised |-> "none"],
                             file.plugins)
       IN IF st.raised = "none" THEN st
          ELSE [tbl |-> st.tbl, count |-> 0, raised |-> st.raised]

\* a mutant of the loader: a missing file is taken as an empty dataset, as
\* init_cache_from_golden_set takes it
LoadSwallowMissing(tbl, file) ==
  IF file.file = "missing"
  THEN [tbl |-> tbl, count |-> 0, raised |-> "none"]
  ELSE IF file.file = "malformed"
  THEN [tbl |-> tbl, count |-> 0, raised |-> "JSONDecodeError"]
  ELSE LET st == LoadPlugins([tbl |-> tbl, count |-> 0, raised |-> "none"],
                             file.plugins)
       IN IF st.raised = "none" THEN st
          ELSE [tbl |-> tbl, count |-> 0, raised |-> st.raised]

\* LocalCache.load_from_golden_set: [tbl, count, raised]; the connection's
\* context manager commits when the block ends and rolls back when it raises
LoadFromGoldenSet(tbl, file) ==
  IF file.file = "missing"
  THEN [tbl |-> tbl, count |-> 0, raised |-> "FileNotFoundError"]
  ELSE IF file.file = "malformed"
  THEN [tbl |-> tbl, count |-> 0, raised |-> "JSONDecodeError"]
  ELSE LET st == LoadPlugins([tbl |-> tbl, count |-> 0, raised |-> "none"],
                             file.plugins)
       IN IF st.raised = "none" THEN st
          ELSE [tbl |-> tbl, count |-> 0, raised |-> st.raised]

\* LocalCache.count: SELECT COUNT(*) FROM hashes
Count(tbl) == Cardinality(tbl)

\* a mutant of init_cache_from_golden_set: FileNotFoundError is not caught
InitCacheNoExcept(tbl, file) ==
  IF Count(tbl) # 0 THEN [tbl |-> tbl, count |-> 0, raised |-> "none"]
  ELSE LoadFromGoldenSet(tbl, file)

\* init_cache_from_golden_set over the database file as an earlier run left
\* it: [tbl, count, raised]
InitCacheFromGoldenSet(tbl, file) ==
  IF Count(tbl) # 0 THEN [tbl |-> tbl, count |-> 0, raised |-> "none"]
  ELSE LET st == LoadFromGoldenSet(tbl, file)
       IN IF st.raised = "FileNotFoundError"
          THEN [tbl |-> tbl, count |-> 0, raised |-> "none"]
          ELSE st

\* the plugins of the datasets
PluginHeads ==
  { [name |-> Val("Foo"), nexusId |-> Val(1)],
    [name |-> Val("Bar"), nexusId |-> Val(2)] }

\* the file entries of the datasets: a digest in lower and in upper case, a
\* second digest, an entry without a digest; status and filename given or not
FileEntries ==
  { [sha256 |-> Val(<<"a","b">>), filename |-> Val("x.dll"), status |-> Missing],
    [sha256 |-> Val(<<"A","B">>), filename |-> Missing, status |-> Val("revoked")],
    [sha256 |-> Val(<<"c","1">>), filename |-> Val("x.dll"), status |-> Val("pending")],
    [sha256 |-> Null, filename |-> Val("x.dll"), status |-> Val("verified")] }

\* the plugin lists of at most p plugins with at most n file entries in all
RECURSIVE PluginLists(_, _)
PluginLists(p, n) ==
  {<<>>} \cup
  (IF p = 0 THEN {}
   ELSE UNION { { <<[name |-> h.name, nexusId |-> h.nexusId, files |-> f]>> \o rest :
                    h \in PluginHeads, rest \in PluginLists(p - 1, n - Len(f)) } :
                f \in SeqUpTo(FileEntries, n) })

\* the golden-set files: absent, unparsable, or a parsed dataset
GoldenSets ==
  { [file |-> "missing"], [file |-> "malformed"] } \cup
  { [file |-> "ok", plugins |-> ps] : ps \in PluginLists(MaxEntries, MaxEntries) }

\* ------------------------------------------- remote verification service

\* what the registry of the remote service says of one digest
RegistryAnswers ==
  { [status |-> "unknown", plugin |-> Null],
    [status |-> "verified",
     plugin |-> Val([name |-> Val("Foo"), nexusId |-> Val(1),
                     filename |-> Val("x.dll"), author |-> Null])],
    [status |-> "revoked",
     plugin |-> Val([name |-> Val("Bar"), nexusId |-> Val(2),
                     filename |-> Null, author |-> Val("bob")])] }

\* the states of the remote registry, by normalized digest
Registries == [NormHashes -> RegistryAnswers]

\* how many items of a sequence carry a status
CountStatus(items, status) ==
  Cardinality({ i \in 1..Len(items) : items[i].status = Val(status) })

\* the body of the service's 200 answer to POST /api/v1/scan: one result per
\* requested digest, in order, the digest lowercased, counts by status
ServerScanBody(registry, hs) ==
  LET items == [i \in 1..Len(hs) |->
                  [hash |-> Val(Lower(hs[i])),
                   status |-> Val(registry[Lower(hs[i])].status),
                   plugin |-> registry[Lower(hs[i])].plugin]]
  IN [scanned |-> Val(Len(hs)),
      verified |-> Val(CountStatus(items, "verified")),
      unknown |-> Val(CountStatus(items, "unknown")),
      revoked |-> Val(CountStatus(items, "revoked")),
      results |-> items]

\* the outcomes of session.post: no answer (connection refused, timeout), or
\* an HTTP answer
Wires ==
  { [kind |-> "ConnectionError"], [kind |-> "Timeout"],
    [kind |-> "http", status_code |-> 200],
    [kind |-> "http", status_code |-> 500] }

FailingWires == { w \in Wires : w.kind # "http" \/ w.status_code # 200 }

\* ---------------------------------------------------------- SentinelClient

\* PluginInfo(name=..., nexus_id=..., filename=..., author=...) of one item
ParsePlugin(item) ==
  IF item.plugin.k # "val" THEN None
  ELSE [k |-> "plugin",
        name |-> item.plugin.v.name.v,
        nexus_id |-> item.plugin.v.nexusId.v,
        filename |-> DictGet(item.plugin.v.filename),
        author |-> DictGet(item.plugin.v.author)]

\* whether parsing an item raises KeyError: item["hash"], item["status"],
\* item["plugin"]["name"], item["plugin"]["nexusId"]
ItemRaises(item) ==
  \/ item.hash.k = "missing"
  \/ item.status.k = "missing"
  \/ /\ item.plugin.k = "val"
     /\ (item.plugin.v.name.k = "missing" \/ item.plugin.v.nexusId.k = "missing")

\* a mutant of the ScanResult of scan: the plugin is dropped
ParseItemNoPlugin(item) ==
  [hash |-> item.hash.v, status |-> item.status.v, plugin |-> None,
   source |-> "remote"]

\* ScanResult(hash=item["hash"], status=item["status"], plugin=plugin, source="remote")
ParseItem(item) ==
  [hash |-> item.hash.v, status |-> item.status.v,
   plugin |-> ParsePlugin(item), source |-> "remote"]

\* a JSON object as response.json() gives it: the keys the client reads
JsonObject(error, code, scanned, verified, unknown, revoked, results) ==
  [json |-> "object", error |-> error, code |-> code, scanned |-> scanned,
   verified |-> verified, unknown |-> unknown, revoked |-> revoked,
   results |-> results]

\* the body of the service's 200 answer, as the client receives it
ScanBody(data) ==
  JsonObject(Missing, Missing, data.scanned, data.verified, data.unknown,
             data.revoked, Val(data.results))

\* the body of the service's answer with another status: {"error", "code"}
ServerErrorBody ==
  JsonObject(Val("Internal error"), Null, Missing, Missing, Missing, Missing,
             Missing)

\* a mutant of scan: an empty list is posted like any other
ScanCallPostsEmpty(hs, response) ==
  IF response.kind # "http"
  THEN [raised |-> "RequestException", value |-> None, posted |-> TRUE]
  ELSE [raised |-> "ValueError", value |-> None, posted |-> TRUE]

\* SentinelClient.scan over the outcome of session.post: [raised, value,
\* posted]; value is the ScanResponse, or message and code of the
\* SentinelAPIError
ScanCall(hs, response) ==
  IF hs = <<>>
  THEN [raised |-> "ValueError", value |-> None, posted |-> FALSE]
  ELSE IF response.kind # "http"
  THEN [raised |-> "RequestException", value |-> None, posted |-> TRUE]
  ELSE LET data == response.body
       IN IF data.json = "invalid"
          THEN [raised |-> data.raises, value |-> None, posted |-> TRUE]
          ELSE IF response.status_code # 200
          THEN IF data.json # "object"
               THEN [raised |-> "AttributeError", value |-> None, posted |-> TRUE]
               ELSE [raised |-> "SentinelAPIError",
                     value |-> [message |-> DictGetDefault(data.error,
                                                           Val("Unknown error")),
                                code |-> DictGet(data.code)],
                     posted |-> TRUE]
          ELSE IF data.json # "object"
          THEN [raised |-> "AttributeError", value |-> None, posted |-> TRUE]
          ELSE LET items == DictGetDefault(data.results, Val(<<>>)).v
               IN IF \E i \in 1..Len(items) : ItemRaises(items[i])
                  THEN [raised |-> "KeyError", value |-> None, posted |-> TRUE]
                  ELSE [raised |-> "none",
                        value |-> [scanned |-> DictGetDefault(data.scanned, Val(0)).v,
                                   verified |-> DictGetDefault(data.verified, Val(0)).v,
                                   unknown |-> DictGetDefault(data.unknown, Val(0)).v,
                                   revoked |-> DictGetDefault(data.revoked, Val(0)).v,
                                   results |-> [i \in 1..Len(items) |->
                                                  ParseItem(items[i])],
                                   source |-> "remote"],
                        posted |-> TRUE]

\* SentinelClient.scan against the service: the answer with status 200 has
\* the body the registry gives, the answer with another status the error body
ClientScan(hs, wire, registry) ==
  ScanCall(hs,
           IF wire.kind # "http" \/ "body" \in DOMAIN wire THEN wire
           ELSE [kind |-> "http", status_code |-> wire.status_code,
                 body |-> IF wire.status_code = 200
                          THEN ScanBody(ServerScanBody(registry, hs))
                          ELSE ServerErrorBody])

\* ---------------------------------------------------------- HybridVerifier

\* a mutant of the classification: every cached record counts as verified
ClassifyAllVerified(cached) ==
  IF cached = None THEN "unknown" ELSE "verified"

\* the status _verify_from_cache gives one cache answer
Classify(cached) ==
  IF cached = None THEN "unknown"
  ELSE IF cached.status = Val("revoked") THEN "revoked"
  ELSE "verified"

\* a mutant of the ScanResult of the cache path: the dataclass default of
\* source is left in place
CacheEntryDefaultSource(hash_str, cached) ==
  [hash |-> hash_str,
   status |-> Classify(cached),
   plugin |-> IF cached = None THEN None
              ELSE [k |-> "plugin", name |-> cached.name,
                    nexus_id |-> cached.nexus_id,
                    filename |-> cached.filename, author |-> Null],
   source |-> "remote"]

\* a mutant of the ScanResult of the cache path: the plugin is left out
CacheEntryNoPlugin(hash_str, cached) ==
  [hash |-> hash_str, status |-> Classify(cached), plugin |-> None,
   source |-> "cached"]

\* the ScanResult _verify_from_cache builds for one item of the cache's dict
CacheEntry(hash_str, cached) ==
  [hash |-> hash_str,
   status |-> Classify(cached),
   plugin |-> IF cached = None THEN None
              ELSE [k |-> "plugin", name |-> cached.name,
                    nexus_id |-> cached.nexus_id,
                    filename |-> cached.filename, author |-> Null],
   source |-> "cached"]

\* a mutant of the loop body: a revoked record is appended as revoked and
\* counted as verified
CacheStepMiscount(acc, item) ==
  LET entry == CacheEntry(item.key, item.val)
  IN [results |-> Append(acc.results, entry),
      verified |-> acc.verified + (IF entry.status = "unknown" THEN 0 ELSE 1),
      unknown |-> acc.unknown + (IF entry.status = "unknown" THEN 1 ELSE 0),
      revoked |-> acc.revoked]

\* the loop body of _verify_from_cache: one counter goes up by one and one
\* ScanResult is appended
CacheStep(acc, item) ==
  LET entry == CacheEntry(item.key, item.val)
  IN [results |-> Append(acc.results, entry),
      verified |-> acc.verified + (IF entry.status = "verified" THEN 1 ELSE 0),
      unknown |-> acc.unknown + (IF entry.status = "unknown" THEN 1 ELSE 0),
      revoked |-> acc.revoked + (IF entry.status = "revoked" THEN 1 ELSE 0)]

\* for hash_str, cached in cache_results.items()
RECURSIVE CacheLoop(_, _)
CacheLoop(acc, items) ==
  IF items = <<>> THEN acc
  ELSE CacheLoop(CacheStep(acc, Head(items)), Tail(items))

\* a mutant of scanned in _verify_from_cache: the number of results
ScannedAsResults(hs, results) == Len(results)

\* scanned=len(hashes)
Scanned(hs, results) == Len(hs)

\* HybridVerifier._verify_from_cache
VerifyFromCache(tbl, hs, order) ==
  LET cache_results == GetBatch(tbl, hs, order)
      acc == CacheLoop([results |-> <<>>, verified |-> 0, unknown |-> 0,
                        revoked |-> 0], cache_results)
  IN [scanned |-> Scanned(hs, acc.results),
      verified |-> acc.verified,
      unknown |-> acc.unknown,
      revoked |-> acc.revoked,
      results |-> acc.results,
      source |-> "cached"]

\* a mutant of the except clause of verify: only network errors are caught
CaughtOnlyNetwork(exc) == exc = "RequestException"

\* except (requests.RequestException, SentinelAPIError)
Caught(exc) == exc \in {"RequestException", "SentinelAPIError"}

\* the subsystem calls of verify so far, after client.scan ended
AfterScan(r) == IF r.posted THEN <<"remote">> ELSE <<>>

\* a mutant of verify: no check of the input, and every exception of the
\* remote scan is caught
VerifyCallBroadExcept(tbl, last, hs, e) ==
  LET r == ClientScan(hs, e.wire, e.registry)
  IN IF r.raised = "none"
     THEN [raised |-> "none", result |-> r.value, last_source |-> "remote",
           calls |-> AfterScan(r)]
     ELSE [raised |-> "none", result |-> VerifyFromCache(tbl, hs, e.order),
           last_source |-> "cached", calls |-> Append(AfterScan(r), "cache")]

\* a mutant of verify: the cache is read first, the remote answer replaces it
VerifyCallCacheFirst(tbl, last, hs, e) ==
  IF hs = <<>>
  THEN [raised |-> "ValueError", result |-> None, last_source |-> last,
        calls |-> <<>>]
  ELSE LET c == VerifyFromCache(tbl, hs, e.order)
           r == ClientScan(hs, e.wire, e.registry)
       IN IF r.raised = "none"
          THEN [raised |-> "none", result |-> r.value, last_source |-> "remote",
                calls |-> <<"cache">> \o AfterScan(r)]
          ELSE IF Caught(r.raised)
          THEN [raised |-> "none", result |-> c, last_source |-> "cached",
                calls |-> <<"cache">> \o AfterScan(r)]
          ELSE [raised |-> r.raised, result |-> None, last_source |-> last,
                calls |-> <<"cache">> \o AfterScan(r)]

\* a mutant of verify: a circuit breaker, the remote scan is left out while
\* the last answer came from the cache
VerifyCallCircuitBreaker(tbl, last, hs, e) ==
  IF hs = <<>>
  THEN [raised |-> "ValueError", result |-> None, last_source |-> last,
        calls |-> <<>>]
  ELSE LET r == ClientScan(hs, e.wire, e.registry)
       IN IF last = "cached" /\ r.raised # "none"
          THEN [raised |-> "none", result |-> VerifyFromCache(tbl, hs, e.order),
                last_source |-> "cached", calls |-> <<"cache">>]
          ELSE IF r.raised = "none"
          THEN [raised |-> "none", result |-> r.value, last_source |-> "remote",
                calls |-> AfterScan(r)]
          ELSE IF Caught(r.raised)
          THEN [raised |-> "none", result |-> VerifyFromCache(tbl, hs, e.order),
                last_source |-> "cached", calls |-> Append(AfterScan(r), "cache")]
          ELSE [raised |-> r.raised, result |-> None, last_source |-> last,
                calls |-> AfterScan(r)]

\* a mutant of verify: last_source is left as it was
VerifyCallStaleSource(tbl, last, hs, e) ==
  IF hs = <<>>
  THEN [raised |-> "ValueError", result |-> None, last_source |-> last,
        calls |-> <<>>]
  ELSE LET r == ClientScan(hs, e.wire, e.registry)
       IN IF r.raised = "none"
          THEN [raised |-> "none", result |-> r.value, last_source |-> last,
                calls |-> AfterScan(r)]
          ELSE IF Caught(r.raised)
          THEN [raised |-> "none", result |-> VerifyFromCache(tbl, hs, e.order),
                last_source |-> last, calls |-> Append(AfterScan(r), "cache")]
          ELSE [raised |-> r.raised, result |-> None, last_source |-> last,
                calls |-> AfterScan(r)]

\* HybridVerifier.verify: [raised, result, last_source, calls]
VerifyCall(tbl, last, hs, e) ==
  IF hs = <<>>
  THEN [raised |-> "ValueError", result |-> None, last_source |-> last,
        calls |-> <<>>]
  ELSE LET r == ClientScan(hs, e.wire, e.registry)
       IN IF r.raised = "none"
          THEN [raised |-> "none", result |-> r.value, last_source |-> "remote",
                calls |-> AfterScan(r)]
          ELSE IF Caught(r.raised)
          THEN [raised |-> "none", result |-> VerifyFromCache(tbl, hs, e.order),
                last_source |-> "cached", calls |-> Append(AfterScan(r), "cache")]
          ELSE [raised |-> r.raised, result |-> None, last_source |-> last,
                calls |-> AfterScan(r)]

\* a mutant of verify: write-through, the records the remote service
\* reports are stored in the cache
CacheAfterVerifyWriteThrough(tbl, v) ==
  IF v.raised # "none" \/ v.last_source # "remote" THEN tbl
  ELSE { r \in tbl : \A j \in 1..Len(v.result.results) :
                        r.sha256 # v.result.results[j].hash }
       \cup { [sha256 |-> v.result.results[j].hash,
                name |-> v.result.results[j].plugin.name,
                nexus_id |-> v.result.results[j].plugin.nexus_id,
                filename |-> v.result.results[j].plugin.filename,
                status |-> Val(v.result.results[j].status)] :
                j \in { i \in 1..Len(v.result.results) :
                          v.result.results[i].plugin # None } }

\* the table after a verify with outcome v: the only statements verify
\* runs on the database are the SELECTs of get_batch
CacheAfterVerify(tbl, v) == tbl

\* ------------------------------------------------------------- behaviour

\* the orders in which the engine may yield two rows
Orders == { o \in [1..Cardinality(NormHashes) -> NormHashes] :
              \A i, j \in DOMAIN o : i # j => o[i] # o[j] }

NoOrder == CHOOSE o \in Orders : TRUE
NoRegistry == CHOOSE r \in Registries : TRUE
NoFile == [file |-> "missing"]
NoReader == [at |-> 0, versions |-> {}, results |-> <<>>]
NoEnv == [wire |-> [kind |-> "ConnectionError"], registry |-> NoRegistry,
          order |-> NoOrder]

\* what the outside can do during one verify: the service answers from its
\* registry, or the request fails and the cache is read in some row order
Envs ==
  { [wire |-> [kind |-> "http", status_code |-> 200], registry |-> r,
     order |-> NoOrder] : r \in Registries } \cup
  { [wire |-> w, registry |-> NoRegistry, order |-> o] :
      w \in FailingWires, o \in Orders }

\* a batch of n hashes: h1 in every place but the last, h2 in the last
LongBatch(n, h1, h2) == [i \in 1..n |-> IF i < n THEN h1 ELSE h2]

\* batches of chunk_size hashes (one chunk) and of chunk_size + 1 (two
\* chunks), among them batches whose two chunks hold the same digest
LongBatches ==
  { LongBatch(n, h1, h2) : n \in {chunk_size, chunk_size + 1},
                           h1, h2 \in {<<"A","B">>, <<"a","b">>, <<"c","1">>} }

\* a new HybridVerifier over an empty cache database
Init ==
  /\ rows = {}
  /\ last_source = "cached"
  /\ pc = "idle"
  /\ op = "none"
  /\ hashes = <<>>
  /\ dataset = NoFile
  /\ env = NoEnv
  /\ raised = "none"
  /\ result = None
  /\ ret = 0
  /\ calls = <<>>
  /\ before = {}
  /\ rd = NoReader
  /\ selected_path = FALSE
  /\ is_scanning = FALSE
  /\ scan_btn = "disabled"
  /\ events = <<>>
  /\ threads = <<>>

\* verifier.verify(hs)
Verify ==
  /\ pc = "idle"
  /\ \E hs \in SeqUpTo(HashInputs, MaxBatch), e \in Envs :
       LET v == VerifyCall(rows, last_source, hs, e)
       IN /\ hashes' = hs
          /\ env' = e
          /\ raised' = v.raised
          /\ result' = v.result
          /\ last_source' = v.last_source
          /\ calls' = v.calls
          /\ rows' = CacheAfterVerify(rows, v)
  /\ pc' = "done"
  /\ op' = "verify"
  /\ UNCHANGED <<dataset, ret, before, rd, guivars>>

\* cache.load_from_golden_set()
Load ==
  /\ pc = "idle"
  /\ \E g \in GoldenSets :
       LET st == LoadFromGoldenSet(rows, g)
       IN /\ dataset' = g
          /\ rows' = st.tbl
          /\ ret' = st.count
          /\ raised' = st.raised
  /\ pc' = "done"
  /\ op' = "load"
  /\ calls' = <<>>
  /\ UNCHANGED <<last_source, hashes, env, result, before, rd, guivars>>

\* cache.get_batch(hs)
Batch ==
  /\ pc = "idle"
  /\ \E hs \in SeqUpTo(HashInputs, MaxBatch) \cup LongBatches, o \in Orders :
       /\ hashes' = hs
       /\ env' = [NoEnv EXCEPT !.order = o]
       /\ result' = GetBatch(rows, hs, o)
  /\ pc' = "done"
  /\ op' = "get_batch"
  /\ raised' = "none"
  /\ calls' = <<>>
  /\ UNCHANGED <<rows, last_source, dataset, ret, before, rd, guivars>>

\* cache.clear(): DELETE FROM hashes
Clear ==
  /\ pc = "idle"
  /\ rows' = {}
  /\ pc' = "done"
  /\ op' = "clear"
  /\ raised' = "none"
  /\ calls' = <<>>
  /\ UNCHANGED <<last_source, hashes, dataset, env, result, ret, before, rd, guivars>>

\* the caller takes the outcome of the call; the next call can start
Return ==
  /\ pc = "done"
  /\ pc' = "idle"
  /\ op' = "none"
  /\ hashes' = <<>>
  /\ dataset' = NoFile
  /\ env' = NoEnv
  /\ raised' = "none"
  /\ result' = None
  /\ ret' = 0
  /\ calls' = <<>>
  /\ before' = {}
  /\ rd' = NoReader
  /\ UNCHANGED <<rows, last_source, guivars>>

Next == Verify \/ Load \/ Batch \/ Clear \/ Return

Spec == Init /\ [][Next]_vars

\* -------------------------------------- reading the cache during a sync

\* the batches read during a sync: two hashes in one chunk, and
\* chunk_size + 1 hashes, the last of them alone in the second chunk
ConcBatches ==
  { LongBatch(n, h1, h2) : n \in {2, chunk_size + 1},
                           h1, h2 \in {<<"a","b">>, <<"c","1">>} }

\* the start of the chunk the reader selects next
ChunkStart == (rd.at - 1) * chunk_size

\* cache.get_batch(hs) begins on the reader's thread: normalized is taken
\* and the connection is opened
BeginBatch ==
  /\ pc = "idle"
  /\ \E hs \in ConcBatches, o \in Orders :
       /\ hashes' = hs
       /\ env' = [NoEnv EXCEPT !.order = o]
  /\ rd' = [at |-> 1, versions |-> {rows}, results |-> <<>>]
  /\ pc' = "reading"
  /\ op' = "get_batch"
  /\ raised' = "none"
  /\ calls' = <<>>
  /\ UNCHANGED <<rows, last_source, dataset, result, ret, before, guivars>>

\* one turn of the chunk loop: one SELECT, a read transaction of its own,
\* over the table as it is committed now
ReadChunk ==
  /\ pc = "reading"
  /\ ChunkStart < Len(hashes)
  /\ LET normalized == BatchNormalized(hashes)
         hi == IF ChunkStart + chunk_size < Len(normalized)
               THEN ChunkStart + chunk_size ELSE Len(normalized)
     IN rd' = [rd EXCEPT
                 !.at = @ + 1,
                 !.results = BatchChunks(rows, SubSeq(normalized, 1, hi),
                                         env.order, ChunkStart, @)]
  /\ UNCHANGED <<rows, last_source, pc, op, hashes, dataset, env, raised,
                 result, ret, calls, before, guivars>>

\* load_from_golden_set on the host's other thread commits while the reader
\* is between two statements: all its upserts become visible at once (its
\* returned count goes to that thread)
ConcLoad ==
  /\ pc = "reading"
  /\ Cardinality(rd.versions) = 1
  /\ \E g \in GoldenSets :
       LET st == LoadFromGoldenSet(rows, g)
       IN /\ st.raised = "none"
          /\ rows' = st.tbl
          /\ rd' = [rd EXCEPT !.versions = @ \cup {st.tbl}]
  /\ UNCHANGED <<last_source, pc, op, hashes, dataset, env, raised, result,
                 ret, calls, before, guivars>>

\* the chunk loop has ended: the missing keys are filled and the dict returned
FinishBatch ==
  /\ pc = "reading"
  /\ ChunkStart >= Len(hashes)
  /\ result' = FillNone(rd.results, BatchNormalized(hashes))
  /\ rd' = [rd EXCEPT !.at = 0]
  /\ pc' = "done"
  /\ UNCHANGED <<rows, last_source, op, hashes, dataset, env, raised, ret,
                 calls, before, guivars>>

NextConc ==
  Load \/ Return \/ BeginBatch \/ ReadChunk \/ ConcLoad \/ FinishBatch

SpecConc == Init /\ [][NextConc]_vars

\* ------------------------------------------- syncing the cache repeatedly

\* file entries for repeated syncs: one digest in lower and in upper case
\* under different optional fields, and entries whose sha256 is missing, null
\* or empty
SyncEntries ==
  { [sha256 |-> Val(<<"a","b">>), filename |-> Val("x.dll"), status |-> Missing],
    [sha256 |-> Val(<<"A","B">>), filename |-> Missing, status |-> Val("revoked")],
    [sha256 |-> Missing, filename |-> Val("x.dll"), status |-> Val("verified")],
    [sha256 |-> Null, filename |-> Val("x.dll"), status |-> Val("verified")],
    [sha256 |-> Val(<<>>), filename |-> Val("x.dll"), status |-> Val("verified")] }

\* the plugin lists over SyncEntries
RECURSIVE SyncPluginLists(_, _)
SyncPluginLists(p, n) ==
  {<<>>} \cup
  (IF p = 0 THEN {}
   ELSE UNION { { <<[name |-> h.name, nexusId |-> h.nexusId, files |-> f]>> \o rest :
                    h \in PluginHeads, rest \in SyncPluginLists(p - 1, n - Len(f)) } :
                f \in SeqUpTo(SyncEntries, n) })

\* the golden-set files of the repeated syncs
SyncGoldenSets ==
  { [file |-> "missing"] } \cup
  { [file |-> "ok", plugins |-> ps] : ps \in SyncPluginLists(MaxEntries, MaxEntries) }

\* verifier.sync_cache() for the first time over a golden-set file
SyncLoad ==
  /\ pc = "idle" /\ op = "none"
  /\ \E g \in SyncGoldenSets :
       LET st == LoadFromGoldenSet(rows, g)
       IN /\ dataset' = g
          /\ rows' = st.tbl
          /\ ret' = st.count
          /\ raised' = st.raised
  /\ pc' = "done"
  /\ op' = "load"
  /\ calls' = <<>>
  /\ before' = rows
  /\ UNCHANGED <<last_source, hashes, env, result, rd, guivars>>

\* the caller takes the outcome of a sync_cache or of a verify after it; the
\* golden-set file stays as it is
ReturnKeep ==
  /\ pc = "done" /\ op \in {"load", "resync", "verify"}
  /\ pc' = "idle"
  /\ op' = "synced"
  /\ hashes' = <<>>
  /\ env' = NoEnv
  /\ raised' = "none"
  /\ result' = None
  /\ calls' = <<>>
  /\ UNCHANGED <<rows, last_source, dataset, ret, before, rd, guivars>>

\* verifier.sync_cache() again, over the unchanged golden-set file
LoadAgain ==
  /\ pc = "idle" /\ op = "synced"
  /\ LET st == LoadFromGoldenSet(rows, dataset)
     IN /\ rows' = st.tbl
        /\ ret' = st.count
        /\ raised' = st.raised
  /\ pc' = "done"
  /\ op' = "resync"
  /\ calls' = <<>>
  /\ before' = rows
  /\ UNCHANGED <<last_source, hashes, dataset, env, result, rd, guivars>>

NextSync == SyncLoad \/ ReturnKeep \/ LoadAgain \/ Clear \/ Return

SpecSync == Init /\ [][NextSync]_vars

\* ------------------------------------- sync, then verify with no network

\* file entries of the datasets synced before a verify: one digest as
\* verified, as revoked and without status under another filename, and a
\* second digest
E2EEntries ==
  { [sha256 |-> Val(<<"a","b">>), filename |-> Val("x.dll"), status |-> Val("verified")],
    [sha256 |-> Val(<<"a","b">>), filename |-> Val("x.dll"), status |-> Val("revoked")],
    [sha256 |-> Val(<<"a","b">>), filename |-> Val("y.dll"), status |-> Missing],
    [sha256 |-> Val(<<"c","1">>), filename |-> Val("x.dll"), status |-> Val("verified")] }

\* golden-set files of one plugin with at least one file entry
E2EGoldenSets ==
  { [file |-> "ok",
     plugins |-> << [name |-> h.name, nexusId |-> h.nexusId, files |-> f] >>] :
      h \in PluginHeads, f \in SeqUpTo(E2EEntries, MaxEntries) \ {<<>>} }

\* verifier.sync_cache() over the golden-set file as it is now
E2ESync ==
  /\ pc = "idle" /\ op = "none"
  /\ \E g \in E2EGoldenSets :
       LET st == LoadFromGoldenSet(rows, g)
       IN /\ dataset' = g
          /\ rows' = st.tbl
          /\ ret' = st.count
          /\ raised' = st.raised
  /\ pc' = "done"
  /\ op' = "load"
  /\ calls' = <<>>
  /\ before' = rows
  /\ UNCHANGED <<last_source, hashes, env, result, rd, guivars>>

\* verifier.verify([h]) while the remote scan fails
VerifyOffline ==
  /\ pc = "idle"
  /\ \E h \in HashInputs, w \in FailingWires, o \in Orders :
       LET e == [wire |-> w, registry |-> NoRegistry, order |-> o]
           v == VerifyCall(rows, last_source, <<h>>, e)
       IN /\ hashes' = <<h>>
          /\ env' = e
          /\ raised' = v.raised
          /\ result' = v.result
          /\ last_source' = v.last_source
          /\ calls' = v.calls
          /\ rows' = CacheAfterVerify(rows, v)
  /\ pc' = "done"
  /\ op' = "verify"
  /\ UNCHANGED <<dataset, ret, before, rd, guivars>>

NextE2E == E2ESync \/ ReturnKeep \/ VerifyOffline \/ Return

SpecE2E == Init /\ [][NextE2E]_vars

\* ------------------------------------------- the client against any server

\* the results a server may report: well-formed items with and without
\* plugin, with and without the optional plugin fields, and an item
\* without hash
ReportedItems ==
  { [hash |-> Val(<<"a","b">>), status |-> Val(st), plugin |-> p] :
      st \in {"verified", "revoked"},
      p \in { Null,
              Val([name |-> Val("Foo"), nexusId |-> Val(1),
                   filename |-> Val("x.dll"), author |-> Null]),
              Val([name |-> Val("Bar"), nexusId |-> Val(2),
                   filename |-> Missing, author |-> Val("bob")]) } } \cup
  { [hash |-> Missing, status |-> Val("unknown"), plugin |-> Null] }

\* JSON objects with the keys of a scan answer: results given or not, counts
\* given or not
ScanBodies ==
  { JsonObject(Missing, Missing, c.scanned, c.verified, c.unknown, c.revoked, r) :
      c \in { [scanned |-> Missing, verified |-> Missing, unknown |-> Missing,
               revoked |-> Missing],
              [scanned |-> Val(2), verified |-> Val(1), unknown |-> Val(0),
               revoked |-> Val(1)] },
      r \in {Missing} \cup { Val(items) : items \in SeqUpTo(ReportedItems, MaxBatch) } }

\* JSON objects with the keys of an error answer, each given or not
ErrorBodies ==
  { JsonObject(e, c, Missing, Missing, Missing, Missing, Missing) :
      e \in {Missing, Val("Rate limited")},
      c \in {Missing, Null, Val("E429")} }

\* bodies that are no JSON object: text that is no JSON (response.json()
\* raises requests' JSONDecodeError, a RequestException from requests 2.27 on
\* and a ValueError before), and a JSON array
OtherBodies ==
  { [json |-> "invalid", raises |-> c] : c \in {"RequestException", "ValueError"} }
  \cup { [json |-> "array"] }

\* the status codes of the answers
StatusCodes == {200, 204, 404, 500}

\* the outcomes of session.post and session.get against any server
Responses ==
  { [kind |-> "ConnectionError"], [kind |-> "Timeout"] } \cup
  { [kind |-> "http", status_code |-> c, body |-> b] :
      c \in StatusCodes, b \in ScanBodies \cup ErrorBodies \cup OtherBodies }

\* the hash lists scan is called with
ScanInputs == { <<>>, << <<"a","b">> >>, << <<"A","B">>, <<"c","1">> >> }

\* a mutant of health_check: every 2xx status counts as healthy
HealthCallAny2xx(response) ==
  IF response.kind # "http"
  THEN [raised |-> "none", value |-> FALSE]
  ELSE [raised |-> "none", value |-> (response.status_code \in 200..299)]

\* SentinelClient.health_check over the outcome of session.get
HealthCall(response) ==
  IF response.kind # "http"
  THEN [raised |-> "none", value |-> FALSE]
  ELSE [raised |-> "none", value |-> (response.status_code = 200)]

\* client.scan(hs)
Scan ==
  /\ pc = "idle"
  /\ \E hs \in ScanInputs, response \in Responses :
       LET r == ScanCall(hs, response)
       IN /\ hashes' = hs
          /\ env' = [NoEnv EXCEPT !.wire = response]
          /\ raised' = r.raised
          /\ result' = r.value
          /\ calls' = AfterScan(r)
  /\ pc' = "done"
  /\ op' = "scan"
  /\ UNCHANGED <<rows, last_source, dataset, ret, before, rd, guivars>>

\* client.health_check(), also verifier.is_online()
HealthCheck ==
  /\ pc = "idle"
  /\ \E response \in Responses :
       LET r == HealthCall(response)
       IN /\ env' = [NoEnv EXCEPT !.wire = response]
          /\ raised' = r.raised
          /\ result' = r.value
  /\ pc' = "done"
  /\ op' = "health_check"
  /\ calls' = <<"remote">>
  /\ UNCHANGED <<rows, last_source, hashes, dataset, ret, before, rd, guivars>>

NextClient == Scan \/ HealthCheck \/ Return

SpecClient == Init /\ [][NextClient]_vars

\* ------------------------------------------------- hasher (tools/hasher.py)

\* bytes hash_file reads at a time
CHUNK_SIZE == 65536

\* the names of files and directories, as sequences of characters
NameADll == <<"a", ".", "d", "l", "l">>
NameBDLL == <<"b", ".", "D", "L", "L">>
NameTxt == <<"a", ".", "t", "x", "t">>
NameSub == <<"s", "u", "b">>
NameDeep == <<"d", "e", "e", "p">>
NameMDll == <<"m", ".", "d", "l", "l">>

\* the directory scan_directory is called on
ScanRoot == << <<"m", "o", "d", "s">> >>

\* the directories below the scanned one a file may lie in: the directory
\* itself, a subdirectory, a subdirectory of that, a directory named m.dll
FileDirs == { <<>>, <<NameSub>>, <<NameSub, NameDeep>>, <<NameMDll>> }

\* the files of the trees: path below the scanned directory, bytes, and
\* whether the process may open the file for reading
FileNodes ==
  { [path |-> d \o <<n>>, content |-> c, readable |-> TRUE] :
      d \in FileDirs, n \in {NameADll, NameBDLL, NameTxt},
      c \in {<<>>, <<1>>, <<1, 2>>} } \cup
  { [path |-> d \o <<n>>, content |-> <<1>>, readable |-> FALSE] :
      d \in FileDirs, n \in {NameADll, NameBDLL, NameTxt} }

\* the directory trees: at most MaxFiles files, one file to a path; the
\* directories of a tree are those its files lie in
Trees ==
  { t \in { Range(fs) : fs \in SeqUpTo(FileNodes, MaxFiles) } :
      \A f, g \in t : f.path = g.path => f = g }

\* the paths, below the scanned directory, of the directories of a tree
DirsOf(tree) ==
  UNION { { SubSeq(f.path, 1, k) : k \in 1..(Len(f.path) - 1) } : f \in tree }

\* the case rule of the path flavour on one character: a flavour that
\* ignores case folds the letters
FoldChar(c) ==
  CASE c = "D" -> "d"
    [] c = "L" -> "l"
    [] c = "B" -> "b"
    [] OTHER -> c

\* a name as the flavour compares it
NormCase(name, case_sensitive) ==
  IF case_sensitive THEN name ELSE [i \in 1..Len(name) |-> FoldChar(name[i])]

\* a name matches the pattern "*.dll": any characters, then ".dll"
MatchesDll(name, case_sensitive) ==
  LET n == NormCase(name, case_sensitive)
  IN Len(n) >= 4 /\ SubSeq(n, Len(n) - 3, Len(n)) = <<".", "d", "l", "l">>

\* a mutant of find_dll_files: glob in place of rglob, the directory's own
\* entries only
FindDllFilesTopOnly(directory, tree, case_sensitive) ==
  { directory \o p : p \in { q \in { f.path : f \in tree } \cup DirsOf(tree) :
                               Len(q) = 1 /\ MatchesDll(q[Len(q)], case_sensitive) } }

\* find_dll_files(directory): the paths at any depth below the directory
\* whose last name matches "*.dll", files and directories alike
FindDllFiles(directory, tree, case_sensitive) ==
  { directory \o p : p \in { q \in { f.path : f \in tree } \cup DirsOf(tree) :
                               Len(q) >= 1 /\ MatchesDll(q[Len(q)], case_sensitive) } }

\* dll_path.relative_to(directory)
RelativeTo(path, directory) == SubSeq(path, Len(directory) + 1, Len(path))

\* str(path) of a relative path: the names joined by the separator
RECURSIVE PathStr(_)
PathStr(path) ==
  IF path = <<>> THEN <<>>
  ELSE IF Len(path) = 1 THEN Head(path)
  ELSE Head(path) \o <<"/">> \o PathStr(Tail(path))

\* the chunks f.read(CHUNK_SIZE) returns until it returns the empty one
RECURSIVE ReadChunks(_)
ReadChunks(content) ==
  IF content = <<>> THEN <<>>
  ELSE LET n == IF Len(content) < CHUNK_SIZE THEN Len(content) ELSE CHUNK_SIZE
       IN <<SubSeq(content, 1, n)>> \o ReadChunks(SubSeq(content, n + 1, Len(content)))

\* the message a sha256 object has been fed by update(chunk), chunk by chunk
RECURSIVE Updated(_)
Updated(chunks) ==
  IF chunks = <<>> THEN <<>> ELSE Head(chunks) \o Updated(Tail(chunks))

\* hexdigest(): the digest of a message, taken to differ for different messages
HexDigest(message) == [sha256_of |-> message]

\* hash_file(file_path) in a tree: the digest of the file's bytes, or the
\* error open() raises
HashFile(tree, directory, file_path) ==
  LET rel == RelativeTo(file_path, directory)
      here == { f \in tree : f.path = rel }
  IN IF here = {}
     THEN [raised |-> IF rel \in DirsOf(tree) THEN "IsADirectoryError"
                      ELSE "FileNotFoundError",
           value |-> None]
     ELSE LET f == CHOOSE f \in here : TRUE
          IN IF ~f.readable THEN [raised |-> "PermissionError", value |-> None]
             ELSE [raised |-> "none",
                   value |-> HexDigest(Updated(ReadChunks(f.content)))]

\* dll_path.stat().st_size of a file
StSize(tree, directory, file_path) ==
  Len((CHOOSE f \in tree : f.path = RelativeTo(file_path, directory)).content)

\* the errors scan_directory catches: PermissionError and every OSError
ScanCatches(e) == e \in {"PermissionError", "IsADirectoryError", "FileNotFoundError"}

\* one turn of scan_directory's loop: the entry of dll_path is appended,
\* unless hashing it raised
ScanStep(results, tree, directory, dll_path) ==
  LET h == HashFile(tree, directory, dll_path)
  IN IF ScanCatches(h.raised) THEN results
     ELSE Append(results,
                 [filename |-> dll_path[Len(dll_path)],
                  path |-> PathStr(RelativeTo(dll_path, directory)),
                  sha256 |-> h.value,
                  size_bytes |-> StSize(tree, directory, dll_path)])

RECURSIVE ScanLoop(_, _, _, _)
ScanLoop(results, tree, directory, dll_files) ==
  IF dll_files = <<>> THEN results
  ELSE ScanLoop(ScanStep(results, tree, directory, Head(dll_files)),
                tree, directory, Tail(dll_files))

\* the listing of a set of paths in the order the file system gives them
Listing(paths, reversed) ==
  LET s == SetToSeq(paths)
  IN IF reversed THEN [i \in 1..Len(s) |-> s[Len(s) + 1 - i]] ELSE s

\* scan_directory(directory) over a tree
ScanDirectoryCall(directory, fs) ==
  ScanLoop(<<>>, fs.tree, directory,
           Listing(FindDllFiles(directory, fs.tree, fs.case_sensitive), fs.reversed))

\* the file systems a scan runs over: a tree, the case rule of its paths and
\* the order of its listings
FileSystems ==
  { [tree |-> t, case_sensitive |-> c, reversed |-> r] :
      t \in Trees, c \in BOOLEAN, r \in BOOLEAN }

\* scan_directory(directory, verbose)
ScanDirectory ==
  /\ pc = "idle"
  /\ \E fs \in FileSystems :
       /\ env' = fs
       /\ result' = ScanDirectoryCall(ScanRoot, fs)
  /\ raised' = "none"
  /\ pc' = "done"
  /\ op' = "scan_directory"
  /\ UNCHANGED <<rows, last_source, hashes, dataset, ret, calls, before, rd, guivars>>

NextHasher == ScanDirectory \/ Return

SpecHasher == Init /\ [][NextHasher]_vars

\* ------------------------------------------- verify over any remote answer

\* verifier.verify(hashes) while the remote gives any answer or none
VerifyAny ==
  /\ pc = "idle"
  /\ \E hs \in ScanInputs, response \in Responses :
       LET e == [NoEnv EXCEPT !.wire = response]
           v == VerifyCall(rows, last_source, hs, e)
       IN /\ hashes' = hs
          /\ env' = e
          /\ raised' = v.raised
          /\ result' = v.result
          /\ last_source' = v.last_source
          /\ calls' = v.calls
          /\ rows' = CacheAfterVerify(rows, v)
  /\ pc' = "done"
  /\ op' = "verify"
  /\ UNCHANGED <<dataset, ret, before, rd, guivars>>

NextAny == VerifyAny \/ Return

SpecAny == Init /\ [][NextAny]_vars

\* ------------------------------------------ export_for_kv (tools/hasher.py)

\* one file entry in export_for_kv: st is [entries, raised]; an entry with a
\* digest gives the key "sha256:" + the digest as the dataset spells it, and
\* the value {name, nexusId, filename, status}
ExportEntry(st, plugin, file_entry) ==
  IF st.raised # "none" \/ ~Truthy(DictGet(file_entry.sha256)) THEN st
  ELSE IF plugin.name.k = "missing" \/ plugin.nexusId.k = "missing"
          \/ file_entry.filename.k = "missing"
  THEN [st EXCEPT !.raised = "KeyError"]
  ELSE [st EXCEPT
          !.entries = Append(st.entries,
                        [key |-> [prefix |-> "sha256:", hash |-> file_entry.sha256.v],
                         value |-> [name |-> plugin.name,
                                    nexusId |-> plugin.nexusId,
                                    filename |-> file_entry.filename,
                                    status |-> DictGetDefault(file_entry.status,
                                                              Val("verified"))]])]

\* for file_entry in plugin.get("files", [])
RECURSIVE ExportFiles(_, _, _)
ExportFiles(st, plugin, files) ==
  IF files = <<>> THEN st
  ELSE ExportFiles(ExportEntry(st, plugin, Head(files)), plugin, Tail(files))

\* for plugin in manifest["plugins"]
RECURSIVE ExportPlugins(_, _)
ExportPlugins(st, plugins) ==
  IF plugins = <<>> THEN st
  ELSE ExportPlugins(ExportFiles(st, Head(plugins), Head(plugins).files),
                     Tail(plugins))

\* export_for_kv(manifest_path, output_path): [entries, raised], entries
\* the list written to the bulk upload file
ExportForKv(file) ==
  IF file.file = "missing"
  THEN [entries |-> <<>>, raised |-> "FileNotFoundError"]
  ELSE IF file.file = "malformed"
  THEN [entries |-> <<>>, raised |-> "JSONDecodeError"]
  ELSE LET st == ExportPlugins([entries |-> <<>>, raised |-> "none"], file.plugins)
       IN IF st.raised = "none" THEN st
          ELSE [entries |-> <<>>, raised |-> st.raised]

\* export_for_kv over a golden-set file
Export ==
  /\ pc = "idle"
  /\ \E g \in GoldenSets :
       LET st == ExportForKv(g)
       IN /\ dataset' = g
          /\ result' = st.entries
          /\ raised' = st.raised
  /\ pc' = "done"
  /\ op' = "export"
  /\ calls' = <<>>
  /\ UNCHANGED <<rows, last_source, hashes, env, ret, before, rd, guivars>>

NextExport == Export \/ Return

SpecExport == Init /\ [][NextExport]_vars

\* ------------------------------------------ the window (ui/app.py), scans

\* how a scan thread's scan_directory call can end
DirectoryOutcomes == {"no_dlls", "no_valid", "exception", "hashes"}

\* how a scan thread's api.scan call, and the handling of its answer, can end
ApiOutcomes == {"success", "api_error", "connection_error", "exception"}

\* a thread as threading.Thread(target=self._scan_thread).start() leaves it
NewThread == [at |-> "scan_directory", outcome |-> "none", scheduled |-> 0, resets |-> 0]

\* a mutant of _scan_thread: no finally clause, a scan that ends in an
\* exception does not reach _finish_scan
AfterOutcomeNoFinally(at, outcome) ==
  IF outcome \in {"exception", "api_error", "connection_error"} THEN "ended"
  ELSE IF at = "scan_directory"
  THEN IF outcome \in {"no_dlls", "no_valid"} THEN "early_after" ELSE "api_scan"
  ELSE "finally_after"

\* where _scan_thread goes on after scan_directory or api.scan ended: the
\* early returns call _finish_scan themselves; every other way leads to the
\* finally clause
AfterOutcome(at, outcome) ==
  IF at = "scan_directory"
  THEN IF outcome \in {"no_dlls", "no_valid"} THEN "early_after"
       ELSE IF outcome = "exception" THEN "finally_after"
       ELSE "api_scan"
  ELSE "finally_after"

\* _select_folder, a folder chosen in the dialog
SelectFolder ==
  /\ selected_path' = TRUE
  /\ scan_btn' = "normal"
  /\ UNCHANGED <<is_scanning, events, threads, corevars>>

\* _start_scan, the command of the Scan button; a disabled button does not
\* run its command
StartScan ==
  /\ scan_btn = "normal"
  /\ Len(threads) < MaxScans
  /\ IF is_scanning \/ ~selected_path
     THEN UNCHANGED <<is_scanning, scan_btn, threads>>
     ELSE /\ is_scanning' = TRUE
          /\ scan_btn' = "disabled"
          /\ threads' = Append(threads, NewThread)
  /\ UNCHANGED <<selected_path, events, corevars>>

\* the main loop runs the oldest callback given to after(0, ...)
MainLoop ==
  /\ events # <<>>
  /\ scan_btn' = Head(events)
  /\ events' = Tail(events)
  /\ UNCHANGED <<selected_path, is_scanning, threads, corevars>>

\* _scan_thread of thread t: scan_directory ends, or api.scan and the
\* handling of its answer end
ThreadCall(t) ==
  /\ t \in DOMAIN threads
  /\ threads[t].at \in {"scan_directory", "api_scan"}
  /\ \E outcome \in (IF threads[t].at = "scan_directory" THEN DirectoryOutcomes
                     ELSE ApiOutcomes) :
       threads' = [threads EXCEPT ![t].at = AfterOutcome(threads[t].at, outcome),
                                  ![t].outcome = outcome]
  /\ UNCHANGED <<selected_path, is_scanning, scan_btn, events, corevars>>

\* _finish_scan of thread t, its after(0, ...) calls: the callback that
\* enables the Scan button is queued
FinishAfter(t) ==
  /\ t \in DOMAIN threads
  /\ threads[t].at \in {"early_after", "finally_after"}
  /\ events' = Append(events, "normal")
  /\ threads' = [threads EXCEPT
                   ![t].at = IF threads[t].at = "early_after" THEN "early_reset"
                             ELSE "finally_reset",
                   ![t].scheduled = 1]
  /\ UNCHANGED <<selected_path, is_scanning, scan_btn, corevars>>

\* _finish_scan of thread t, its last statement: is_scanning = False; after
\* the early returns the finally clause is still to run, after the finally
\* clause the thread ends
FinishReset(t) ==
  /\ t \in DOMAIN threads
  /\ threads[t].at \in {"early_reset", "finally_reset"}
  /\ is_scanning' = FALSE
  /\ threads' = [threads EXCEPT
                   ![t].at = IF threads[t].at = "early_reset" THEN "finally_after"
                             ELSE "ended",
                   ![t].resets = 1]
  /\ UNCHANGED <<selected_path, scan_btn, events, corevars>>

\* the next step of scan thread t
ThreadRun(t) == ThreadCall(t) \/ FinishAfter(t) \/ FinishReset(t)

NextGui ==
  \/ SelectFolder
  \/ StartScan
  \/ MainLoop
  \/ \E t \in 1..MaxScans : ThreadCall(t)
  \/ \E t \in 1..MaxScans : FinishAfter(t)
  \/ \E t \in 1..MaxScans : FinishReset(t)

SpecGui == Init /\ [][NextGui]_vars

\* the main loop keeps running, and every started thread keeps running
SpecGuiFair ==
  /\ Init /\ [][NextGui]_vars
  /\ WF_vars(MainLoop)
  /\ \A t \in 1..MaxScans : WF_vars(ThreadRun(t))

\* ----------------------------------------- syncing from any dataset file

\* plugins of the dataset files: complete, without name, without nexusId
ParseHeads ==
  { [name |-> Val("Foo"), nexusId |-> Val(1)],
    [name |-> Missing, nexusId |-> Val(1)],
    [name |-> Val("Foo"), nexusId |-> Missing] }

\* file entries of the dataset files: with and without the optional fields,
\* and without a digest
ParseEntries ==
  { [sha256 |-> Val(<<"a","b">>), filename |-> Val("x.dll"), status |-> Missing],
    [sha256 |-> Val(<<"c","1">>), filename |-> Missing, status |-> Val("revoked")],
    [sha256 |-> Null, filename |-> Val("x.dll"), status |-> Val("verified")] }

\* the plugin lists over ParseHeads and ParseEntries
RECURSIVE ParsePluginLists(_, _)
ParsePluginLists(p, n) ==
  {<<>>} \cup
  (IF p = 0 THEN {}
   ELSE UNION { { <<[name |-> h.name, nexusId |-> h.nexusId, files |-> f]>> \o rest :
                    h \in ParseHeads, rest \in ParsePluginLists(p - 1, n - Len(f)) } :
                f \in SeqUpTo(ParseEntries, n) })

\* the dataset files: absent, no JSON, or a JSON dataset
ParseGoldenSets ==
  { [file |-> "missing"], [file |-> "malformed"] } \cup
  { [file |-> "ok", plugins |-> ps] : ps \in ParsePluginLists(MaxEntries, MaxEntries) }

\* verifier.sync_cache() over any dataset file
SyncAny ==
  /\ pc = "idle"
  /\ \E g \in ParseGoldenSets :
       LET st == LoadFromGoldenSet(rows, g)
       IN /\ dataset' = g
          /\ rows' = st.tbl
          /\ ret' = st.count
          /\ raised' = st.raised
  /\ pc' = "done"
  /\ op' = "load"
  /\ calls' = <<>>
  /\ before' = rows
  /\ UNCHANGED <<last_source, hashes, env, result, rd, guivars>>

NextParse == SyncAny \/ Clear \/ Return

SpecParse == Init /\ [][NextParse]_vars

\* ------------------------------------ constructing a verifier without cache

\* HybridVerifier() in a new run of the program: the database file is as
\* the run before left it, the golden-set file is any file
Construct ==
  /\ pc = "idle"
  /\ \E g \in ParseGoldenSets :
       LET st == InitCacheFromGoldenSet(rows, g)
       IN /\ dataset' = g
          /\ rows' = st.tbl
          /\ ret' = st.count
          /\ raised' = st.raised
  /\ last_source' = "cached"
  /\ pc' = "done"
  /\ op' = "construct"
  /\ calls' = <<>>
  /\ before' = rows
  /\ UNCHANGED <<hashes, env, result, rd, guivars>>

NextConstruct == Construct \/ Clear \/ Return

SpecConstruct == Init /\ [][NextConstruct]_vars

\* ---------------------------------------------------------------- claims

\* a verify call has ended
VerifyDone == pc = "done" /\ op = "verify"

\* what the remote scan of the ended verify call did
ScanOutcome == ClientScan(hashes, env.wire, env.registry)

\* the ended verify call answered from the cache
FellBack == VerifyDone /\ raised = "none" /\ calls = <<"remote", "cache">>

\* C1: for a non-empty hash list, when the remote scan fails with a
\* transport error (a timeout included) or an API error, verify does not
\* raise and returns a result whose source is "cached".
C1_FallbackOnRemoteFailure ==
  (VerifyDone /\ hashes # <<>>
     /\ ScanOutcome.raised \in {"RequestException", "SentinelAPIError"})
  => (raised = "none" /\ result.source = "cached")

\* C1 witness: verify ended after an API error (HTTP 500) of the remote
C1_Witness ==
  /\ VerifyDone /\ hashes # <<>>
  /\ env.wire = [kind |-> "http", status_code |-> 500]
  /\ result # None

\* the status and plugin the cache contents give a digest h
ExpectedFromRows(h, entry) ==
  LET hit == { r \in rows : r.sha256 = h }
  IN IF hit = {} THEN entry.status = "unknown" /\ entry.plugin = None
     ELSE \A r \in hit :
            /\ entry.status = (IF r.status = Val("revoked") THEN "revoked"
                               ELSE "verified")
            /\ entry.plugin # None
            /\ entry.plugin.name = r.name
            /\ entry.plugin.nexus_id = r.nexus_id
            /\ entry.plugin.filename = r.filename

\* C2: in the cache fallback every requested hash is classified from the
\* cache contents alone: absent gives unknown without a plugin, stored as
\* revoked gives revoked with the plugin, any other stored status gives
\* verified with the plugin; a revoked record is never reported verified.
C2_FallbackClassification ==
  FellBack =>
    \A i \in 1..Len(hashes) :
      LET h == Lower(hashes[i])
          es == { j \in 1..Len(result.results) : result.results[j].hash = h }
      IN es # {} /\ \A j \in es : ExpectedFromRows(h, result.results[j])

\* C2 witness: a fallback that reports a record stored as revoked and a
\* record stored as pending
C2_Witness ==
  /\ FellBack
  /\ \E r \in rows : r.status = Val("revoked") /\ r.sha256 \in Range(LowerAll(hashes))
  /\ \E r \in rows : r.status = Val("pending") /\ r.sha256 \in Range(LowerAll(hashes))

\* C3: when the remote scan succeeds, verify returns the remote client's
\* result unchanged, with source "remote", and makes no call to the cache.
C3_RemotePrecedence ==
  (VerifyDone /\ hashes # <<>> /\ ScanOutcome.raised = "none")
  => /\ raised = "none"
     /\ result = ScanOutcome.value
     /\ result.source = "remote"
     /\ calls = <<"remote">>

\* C3 witness: the remote answered a two-hash request while the cache holds
\* a record for a requested hash
C3_Witness ==
  /\ VerifyDone /\ Len(hashes) = 2 /\ ScanOutcome.raised = "none"
  /\ \E r \in rows : r.sha256 \in Range(LowerAll(hashes))

\* C4: verify([]) fails with a validation error (ValueError) before any
\* remote request and before any cache lookup.
C4_EmptyInputRejected ==
  (VerifyDone /\ hashes = <<>>)
  => (raised = "ValueError" /\ calls = <<>> /\ result = None)

\* C4 witness: verify([]) ended
C4_Witness == VerifyDone /\ hashes = <<>> /\ raised = "ValueError"

\* a verify call has returned a result
VerifyReturned == VerifyDone /\ raised = "none"

\* C5: for every result of verify, verified + unknown + revoked = scanned,
\* also when the hash list holds a hash twice or in two letter cases.
C5_CountsSumToScanned ==
  VerifyReturned =>
    result.verified + result.unknown + result.revoked = result.scanned

\* C6: for every non-empty hash list verify(hashes).scanned = len(hashes),
\* duplicates counted, whichever source answered.
C6_ScannedIsInputLength ==
  VerifyReturned => result.scanned = Len(hashes)

\* C6 witness: the cache answered a request that names one digest twice, in
\* two letter cases
C6_Witness ==
  /\ FellBack /\ Len(hashes) = 2
  /\ hashes[1] # hashes[2] /\ Lower(hashes[1]) = Lower(hashes[2])
  /\ result.scanned = 2

\* C7: the result of verify has one entry per requested hash: as many
\* entries as the input is long, a duplicate hash with an entry of its own,
\* the entries in the order of the request.
C7_OneEntryPerRequestedHash ==
  VerifyReturned =>
    /\ Len(result.results) = Len(hashes)
    /\ \A i \in 1..Len(hashes) : result.results[i].hash = Lower(hashes[i])

\* how many entries of a result carry a status
CountResults(results, status) ==
  Cardinality({ i \in 1..Len(results) : results[i].status = status })

\* C8: in every result of verify each of the counts verified, unknown and
\* revoked is the number of entries of the result with that status.
C8_CountsPartitionEntries ==
  VerifyReturned =>
    /\ result.verified = CountResults(result.results, "verified")
    /\ result.unknown = CountResults(result.results, "unknown")
    /\ result.revoked = CountResults(result.results, "revoked")

\* C8 witness: the cache answered with one entry of each kind counted
C8_Witness ==
  /\ FellBack
  /\ result.revoked = 1 /\ result.unknown = 1

\* the hash lists that differ from hs in letter case only
CaseVariants(hs) ==
  { v \in SeqUpTo(HashInputs, MaxBatch) : LowerAll(v) = LowerAll(hs) }

\* C9: for the same cache and remote state, verify of a hash in upper, lower
\* or mixed case gives identical entries, each entry's hash in lower case.
C9_HashNormalization ==
  VerifyReturned =>
    /\ \A j \in 1..Len(result.results) :
         result.results[j].hash = Lower(result.results[j].hash)
    /\ \A v \in CaseVariants(hashes) :
         LET other == VerifyCall(rows, last_source, v, env)
         IN other.raised = "none" /\ other.result.results = result.results

\* C9 witness: the cache answered a request that names a digest it stores
\* in upper case and in mixed case
C9_Witness ==
  /\ FellBack /\ hashes = << <<"A","B">>, <<"a","B">> >>
  /\ result.results[1].status # "unknown"

\* the (plugin, file entry) pairs of a dataset, in dataset order
RECURSIVE Flatten(_)
Flatten(plugins) ==
  IF plugins = <<>> THEN <<>>
  ELSE [i \in 1..Len(Head(plugins).files) |->
          [plugin |-> Head(plugins), file_entry |-> Head(plugins).files[i]]]
       \o Flatten(Tail(plugins))

\* the places of a dataset that give the digest h, in any letter case
Occurrences(flat, h) ==
  { i \in 1..Len(flat) :
      Truthy(flat[i].file_entry.sha256) /\ Lower(flat[i].file_entry.sha256.v) = h }

\* the record a (plugin, file entry) pair describes
RecordOf(pair) ==
  [k |-> "plugin", name |-> pair.plugin.name.v, nexus_id |-> pair.plugin.nexusId.v,
   filename |-> DictGet(pair.file_entry.filename),
   status |-> DictGetDefault(pair.file_entry.status, Val("verified"))]

\* a load has ended without an error
LoadReturned == pc = "done" /\ op = "load" /\ raised = "none"

\* C10: the cache never holds two records for one normalized hash, whatever
\* the loads and clears before; and when a dataset lists a hash more than
\* once (in any letter case, under any plugins) get reads back the record of
\* the last occurrence in dataset order.
C10_OneRecordPerHashLastWins ==
  /\ \A r1, r2 \in rows : Lower(r1.sha256) = Lower(r2.sha256) => r1 = r2
  /\ LoadReturned =>
       \A h \in HashInputs :
         LET flat == Flatten(dataset.plugins)
             occ == Occurrences(flat, Lower(h))
         IN occ # {} =>
              CacheGet(rows, h) =
                RecordOf(flat[CHOOSE i \in occ : \A j \in occ : j <= i])

\* C10 witness: a load of a dataset that lists one digest twice, in two
\* letter cases and under two plugins, into a cache that held it already
C10_Witness ==
  /\ LoadReturned /\ ret = 2 /\ Cardinality(rows) = 1
  /\ Len(dataset.plugins) = 2
  /\ LET flat == Flatten(dataset.plugins)
     IN /\ Len(flat) = 2
        /\ flat[1].file_entry.sha256 # flat[2].file_entry.sha256
        /\ flat[1].plugin.name # flat[2].plugin.name

\* a sync_cache has ended without an error
SyncReturned == pc = "done" /\ op \in {"load", "resync"} /\ raised = "none"

\* C11: sync_cache called twice in succession with an unchanged dataset
\* leaves count() after the second call as it was after the first, and
\* leaves name, nexus_id, filename and status of every stored record
\* unchanged.
C11_SyncTwiceIdempotent ==
  (pc = "done" /\ op = "resync")
  => /\ Count(rows) = Count(before)
     /\ \A h \in HashInputs : CacheGet(rows, h) = CacheGet(before, h)
     /\ { r.sha256 : r \in rows } = { r.sha256 : r \in before }

\* C11 witness: the second sync of a dataset that lists one digest twice
\* has ended, one record stored
C11_Witness ==
  /\ pc = "done" /\ op = "resync" /\ raised = "none"
  /\ ret = 2 /\ Count(rows) = 1

\* C12: a get_batch that runs while load_from_golden_set commits returns
\* what get_batch returns over the cache as it was entirely before or
\* entirely after that sync, also when the batch spans two chunks.
C12_ReadsOneSnapshot ==
  (pc = "done" /\ op = "get_batch")
  => \E T \in rd.versions, o \in Orders : result = GetBatch(T, hashes, o)

\* C13: every verify call with non-empty input makes exactly one remote
\* scan attempt, first, whatever the last answer's source was, and after it
\* at most one cache batch read; the remote attempt is not repeated.
C13_OneRemoteAttemptFirst ==
  (VerifyDone /\ hashes # <<>>)
  => /\ calls \in { <<"remote">>, <<"remote", "cache">> }
     /\ (calls = <<"remote", "cache">>) <=> (Caught(ScanOutcome.raised))

\* C13 witness: a call whose remote attempt failed ended with one remote
\* attempt and one cache read
C13_Witness ==
  /\ VerifyDone /\ Len(hashes) = 2 /\ env.wire.kind = "Timeout"
  /\ calls = <<"remote", "cache">>

\* C20: after every verify call that returns a result, last_source equals
\* the source field of that result.
C20_LastSourceIsResultSource ==
  VerifyReturned => last_source = result.source

\* C20 witness: a call answered by the remote service, last_source no longer
\* what it was at construction
C20_Witness ==
  /\ VerifyReturned /\ result.source = "remote" /\ last_source = "remote"

\* a get_batch has returned its dict
BatchReturned == pc = "done" /\ op = "get_batch"

\* C14: the dict of get_batch has every requested hash, lowercased, as a
\* key, mapped to its stored record when there is one and to None when
\* there is none, and has no other key.
C14_BatchKeysAreRequested ==
  BatchReturned =>
    /\ { result[j].key : j \in 1..Len(result) } = Range(LowerAll(hashes))
    /\ \A i, j \in 1..Len(result) : result[i].key = result[j].key => i = j
    /\ \A j \in 1..Len(result) :
         LET stored == { r \in rows : r.sha256 = result[j].key }
         IN IF stored = {} THEN result[j].val = None
            ELSE \E r \in stored : result[j].val = CachedPlugin(r)

\* C14 witness: a batch of one stored hash, asked in upper case, and one
\* hash that is not stored
C14_Witness ==
  /\ BatchReturned
  /\ hashes = << <<"A","B">>, <<"c","1">> >>
  /\ DictAt(result, <<"a","b">>) # None
  /\ DictAt(result, <<"c","1">>) = None

\* C15: for batches below, at and above chunk_size, also with one digest in
\* two chunks, the dict of get_batch holds under the key of every requested
\* h (h lowercased, the keys of the dict) what get(h) returns.
C15_BatchEqualsGet ==
  BatchReturned =>
    \A i \in 1..Len(hashes) :
      /\ DictHas(result, Lower(hashes[i]))
      /\ DictAt(result, Lower(hashes[i])) = CacheGet(rows, hashes[i])

\* C15 witness: a batch of chunk_size + 1 hashes, the stored digest of the
\* first chunk again in the second chunk in another letter case
C15_Witness ==
  /\ BatchReturned
  /\ Len(hashes) = chunk_size + 1
  /\ hashes[1] = <<"A","B">> /\ hashes[chunk_size + 1] = <<"a","b">>
  /\ DictAt(result, <<"a","b">>) # None

\* the places of a dataset whose file entry the loader upserts
Processed(flat) == { i \in 1..Len(flat) : Truthy(flat[i].file_entry.sha256) }

\* the spellings of the digest h in other or the same letter case
Spellings(h) == { v \in HashInputs : Lower(v) = Lower(h) }

\* C16 as stated: after a load, for every file entry it processed, get of
\* the entry's hash in any letter case returns the record of that plugin and
\* that file entry.
C16_RoundTripEveryEntry ==
  LoadReturned =>
    LET flat == Flatten(dataset.plugins)
    IN \A i \in Processed(flat) :
         \A H \in Spellings(flat[i].file_entry.sha256.v) :
           CacheGet(rows, H) = RecordOf(flat[i])

\* C16, amended: after a load, for every file entry it processed that is not
\* followed in the dataset by an entry giving the same digest (in any letter
\* case), get of the entry's hash in any letter case returns the record of
\* that plugin and that file entry.
C16_RoundTripLastEntry ==
  LoadReturned =>
    LET flat == Flatten(dataset.plugins)
    IN \A i \in Processed(flat) :
         (\A j \in Processed(flat) :
            j > i => Lower(flat[j].file_entry.sha256.v)
                       # Lower(flat[i].file_entry.sha256.v))
         => \A H \in Spellings(flat[i].file_entry.sha256.v) :
              CacheGet(rows, H) = RecordOf(flat[i])

\* C16 witness: a load of one file entry spelled in upper case, without
\* filename, read back in lower case
C16_Witness ==
  /\ LoadReturned /\ ret = 1
  /\ Flatten(dataset.plugins)[1].file_entry.sha256 = Val(<<"A","B">>)
  /\ CacheGet(rows, <<"a","b">>) =
       [k |-> "plugin", name |-> "Foo", nexus_id |-> 1, filename |-> Null,
        status |-> Val("revoked")]

\* the file entry gives a digest: its sha256 is there, not null, not empty
HasDigest(file_entry) ==
  /\ file_entry.sha256 \notin {Missing, Null}
  /\ file_entry.sha256.v # <<>>

\* the places of a dataset whose file entry gives a digest
WithDigest(flat) == { i \in 1..Len(flat) : HasDigest(flat[i].file_entry) }

\* a load skips the entries without digest and loads the others: it raises
\* nothing, every entry with a digest can be read back, no row is stored
\* under a key that is not a digest of the dataset or was stored before, and
\* the returned count is the number of entries with a digest
SkipsAndCounts ==
  LET flat == Flatten(dataset.plugins)
  IN /\ raised = "none"
     /\ ret = Cardinality(WithDigest(flat))
     /\ \A i \in WithDigest(flat) :
          CacheGet(rows, flat[i].file_entry.sha256.v) # None
     /\ { r.sha256 : r \in rows } =
          { r.sha256 : r \in before } \cup
          { Lower(flat[i].file_entry.sha256.v) : i \in WithDigest(flat) }

\* a sync of a readable golden-set file has ended
SyncEnded == pc = "done" /\ op \in {"load", "resync"} /\ dataset.file = "ok"

\* C17 as stated: the load skips the entries whose sha256 is missing, null or
\* empty without aborting, returns the count of upserts, and on an initially
\* empty cache the returned count equals count() afterwards.
C17_ReturnedCountIsCount ==
  SyncEnded =>
    /\ SkipsAndCounts
    /\ before = {} => ret = Count(rows)

\* C17, amended: the load skips the entries whose sha256 is missing, null or
\* empty without aborting and returns the number of upserts it made, one per
\* entry with a digest; on an initially empty cache count() afterwards is the
\* number of distinct digests, which is the returned count exactly when no
\* digest is listed twice (in any letter case).
C17_ReturnedCountIsUpserts ==
  SyncEnded =>
    LET flat == Flatten(dataset.plugins)
        digests == { Lower(flat[i].file_entry.sha256.v) : i \in WithDigest(flat) }
    IN /\ SkipsAndCounts
       /\ before = {} =>
            /\ Count(rows) = Cardinality(digests)
            /\ (ret = Count(rows)) <=>
                 (Cardinality(digests) = Cardinality(WithDigest(flat)))

\* C17 witness: a load into an empty cache of an entry with an empty sha256
\* followed by an entry with a digest
C17_Witness ==
  /\ SyncEnded /\ before = {} /\ Len(Flatten(dataset.plugins)) = 2
  /\ Flatten(dataset.plugins)[1].file_entry.sha256 = Val(<<>>)
  /\ ret = 1 /\ Count(rows) = 1

\* str.upper() on one character of a hexadecimal digest
UpperChar(c) ==
  CASE c = "a" -> "A"
    [] c = "b" -> "B"
    [] c = "c" -> "C"
    [] OTHER -> c

\* str.upper()
Upper(s) == [i \in 1..Len(s) |-> UpperChar(s[i])]

\* a verify answered from the cache after a sync_cache of a readable file,
\* with no other cache operation between them
FellBackAfterSync == FellBack /\ dataset.file = "ok"

\* C18: after a sync_cache that returned 1 over a dataset whose only file
\* entry has the lowercase hash h with status verified under plugin P, and
\* with the remote failing, verify of h in upper case returns scanned 1,
\* verified 1, unknown 0, revoked 0, source cached and exactly one entry:
\* hash h in lower case, status verified, plugin name P, source cached.
C18_SyncThenVerifyOffline ==
  (FellBackAfterSync /\ ret = 1)
  => LET flat == Flatten(dataset.plugins)
         h == flat[1].file_entry.sha256.v
     IN (/\ Len(flat) = 1
         /\ Lower(h) = h
         /\ RecordOf(flat[1]).status = Val("verified")
         /\ hashes = <<Upper(h)>>)
        => /\ result.scanned = 1 /\ result.verified = 1
           /\ result.unknown = 0 /\ result.revoked = 0
           /\ result.source = "cached"
           /\ Len(result.results) = 1
           /\ result.results[1].hash = h
           /\ result.results[1].status = "verified"
           /\ result.results[1].plugin # None
           /\ result.results[1].plugin.name = flat[1].plugin.name.v
           /\ result.results[1].source = "cached"

\* C18 witness: the verify of AB after the sync of the one entry ab, given
\* as verified, under plugin Foo, into an empty cache
C18_Witness ==
  /\ FellBackAfterSync /\ ret = 1 /\ before = {}
  /\ Flatten(dataset.plugins)[1].file_entry.sha256 = Val(<<"a","b">>)
  /\ Flatten(dataset.plugins)[1].file_entry.status = Val("verified")
  /\ hashes = << <<"A","B">> >>
  /\ result.results[1].plugin.name = "Foo"

\* C19: after a sync whose dataset gives a hash another status, plugin name,
\* nexus id or filename than the record stored before, every cache-fallback
\* verify of the hash reports status and plugin of the new record (of the
\* dataset's last entry for the hash), whatever was stored before.
C19_ResyncReplacesRecord ==
  FellBackAfterSync =>
    LET flat == Flatten(dataset.plugins)
        h == Lower(hashes[1])
        occ == Occurrences(flat, h)
    IN occ # {} =>
         LET new == RecordOf(flat[CHOOSE i \in occ : \A j \in occ : j <= i])
         IN /\ Len(result.results) = 1
            /\ result.results[1].hash = h
            /\ result.results[1].status =
                 (IF new.status = Val("revoked") THEN "revoked" ELSE "verified")
            /\ result.results[1].plugin # None
            /\ result.results[1].plugin.name = new.name
            /\ result.results[1].plugin.nexus_id = new.nexus_id
            /\ result.results[1].plugin.filename = new.filename

\* C19 witness: ab was stored as verified under Foo; the sync gave it as
\* revoked under Bar; the verify reports revoked and Bar
C19_Witness ==
  /\ FellBackAfterSync
  /\ CacheGet(before, <<"a","b">>) # None
  /\ CacheGet(before, <<"a","b">>).status = Val("verified")
  /\ CacheGet(before, <<"a","b">>).name = "Foo"
  /\ Lower(hashes[1]) = <<"a","b">>
  /\ result.results[1].status = "revoked"
  /\ result.results[1].plugin.name = "Bar"

\* C21: the source of every result of verify is "remote" exactly when the
\* remote scan succeeded and "cached" exactly when the cache answered, never
\* "mixed", and every entry of the result has the source of the result.
C21_SourceNamesAnswerer ==
  VerifyReturned =>
    /\ result.source \in {"remote", "cached"}
    /\ (result.source = "remote") <=> (ScanOutcome.raised = "none")
    /\ (result.source = "cached") <=> (calls = <<"remote", "cache">>)
    /\ \A j \in 1..Len(result.results) :
         result.results[j].source = result.source

\* C21 witness: an answer from the cache with two entries, both tagged cached
C21_Witness ==
  /\ VerifyReturned /\ ScanOutcome.raised = "SentinelAPIError"
  /\ result.source = "cached" /\ Len(result.results) = 2
  /\ result.results[2].source = "cached"

\* a scan has ended
ScanDone == pc = "done" /\ op = "scan"

\* the answer has a status outside 200..299
Non2xx(response) ==
  response.kind = "http" /\ response.status_code \notin 200..299

\* C22: scan of a non-empty list fails with a SentinelAPIError carrying the
\* message and code of the body on every non-2xx answer, also when the body
\* is no JSON object, and with a RequestException on a transport failure.
C22_Non2xxIsAPIError ==
  (ScanDone /\ hashes # <<>>)
  => /\ Non2xx(env.wire) => raised = "SentinelAPIError"
     /\ (Non2xx(env.wire) /\ env.wire.body.json = "object")
          => /\ env.wire.body.error # Missing
                  => result.message = env.wire.body.error
             /\ result.code = DictGet(env.wire.body.code)
     /\ env.wire.kind # "http" => raised = "RequestException"

\* a health_check has ended
HealthDone == pc = "done" /\ op = "health_check"

\* C23 as stated: health_check never raises, returns false on a transport
\* failure and on a non-2xx answer, and true on a 2xx answer.
C23_HealthTrueOn2xx ==
  HealthDone =>
    /\ raised = "none"
    /\ env.wire.kind # "http" => result = FALSE
    /\ Non2xx(env.wire) => result = FALSE
    /\ (env.wire.kind = "http" /\ env.wire.status_code \in 200..299)
         => result = TRUE

\* C23, amended: health_check never raises, returns false on a transport
\* failure and on every answer whose status is not 200 (other 2xx statuses
\* included), and true on an answer with status 200.
C23_HealthTrueOn200 ==
  HealthDone =>
    /\ raised = "none"
    /\ result = (env.wire.kind = "http" /\ env.wire.status_code = 200)

\* C23 witness: a health_check answered with status 204 has returned false
C23_Witness ==
  /\ HealthDone /\ env.wire.kind = "http" /\ env.wire.status_code = 204
  /\ result = FALSE

\* a sync_cache has ended, with or without an error
SyncDone == pc = "done" /\ op = "load"

\* C24: a missing dataset file and a malformed one make sync_cache fail with
\* two different errors, which its caller receives: FileNotFoundError for
\* the missing file and for nothing else, JSONDecodeError for the malformed
\* file and for nothing else; the cache stays as it was.
C24_MissingAndMalformedDiffer ==
  SyncDone =>
    /\ (dataset.file = "missing") <=> (raised = "FileNotFoundError")
    /\ (dataset.file = "malformed") <=> (raised = "JSONDecodeError")
    /\ dataset.file # "ok" => rows = before

\* C24 witness: a sync over a malformed file, on a filled cache, has ended
\* with JSONDecodeError
C24_Witness ==
  /\ SyncDone /\ dataset.file = "malformed" /\ raised = "JSONDecodeError"
  /\ rows # {}

\* the dataset has a plugin without name or without nexusId
LacksRequired ==
  /\ dataset.file = "ok"
  /\ \E i \in 1..Len(dataset.plugins) :
       dataset.plugins[i].name = Missing \/ dataset.plugins[i].nexusId = Missing

\* C25: a dataset with a plugin that lacks name or nexusId makes the load
\* fail with the error of a malformed dataset (JSONDecodeError), not with
\* another error and not with a silent default.
C25_MissingRequiredIsParseError ==
  (SyncDone /\ LacksRequired) => raised = "JSONDecodeError"

\* C26: scan of an empty hash list fails with ValueError and makes no
\* request, whatever the server would answer.
C26_EmptyScanRejected ==
  (ScanDone /\ hashes = <<>>) => (raised = "ValueError" /\ calls = <<>>)

\* C26 witness: a scan of the empty list has ended, the server up
C26_Witness ==
  /\ ScanDone /\ hashes = <<>> /\ raised = "ValueError"
  /\ env.wire.kind = "http" /\ env.wire.status_code = 200

\* the results the answer of the ended scan reports
Reported == DictGetDefault(env.wire.body.results, Val(<<>>)).v

\* the count the answer of the ended scan gives, 0 when it gives none
ReportedCount(x) == IF x = Missing THEN 0 ELSE x.v

\* C27: when scan returns, its result has one entry per reported result, in
\* order, with the hash, status and plugin (name, nexus id, filename,
\* author) reported, tagged remote; the result is tagged remote and carries
\* the counts of the answer.
C27_ScanMapsAnswer ==
  (ScanDone /\ raised = "none") =>
    /\ result.source = "remote"
    /\ result.scanned = ReportedCount(env.wire.body.scanned)
    /\ result.verified = ReportedCount(env.wire.body.verified)
    /\ result.unknown = ReportedCount(env.wire.body.unknown)
    /\ result.revoked = ReportedCount(env.wire.body.revoked)
    /\ Len(result.results) = Len(Reported)
    /\ \A i \in 1..Len(Reported) :
         LET item == Reported[i]
             entry == result.results[i]
         IN /\ entry.hash = item.hash.v
            /\ entry.status = item.status.v
            /\ entry.source = "remote"
            /\ IF item.plugin = Null THEN entry.plugin = None
               ELSE /\ entry.plugin # None
                    /\ entry.plugin.name = item.plugin.v.name.v
                    /\ entry.plugin.nexus_id = item.plugin.v.nexusId.v
                    /\ entry.plugin.filename =
                         (IF item.plugin.v.filename = Missing THEN Null
                          ELSE item.plugin.v.filename)
                    /\ entry.plugin.author = item.plugin.v.author

\* C27 witness: a scan answered with two results, the first without plugin,
\* the second revoked with a plugin, has returned them in that order
C27_Witness ==
  /\ ScanDone /\ raised = "none" /\ Len(result.results) = 2
  /\ result.results[1].plugin = None
  /\ result.results[2].status = "revoked"
  /\ result.results[2].plugin # None
  /\ result.scanned = 2

\* C28: a verify call leaves the cache as it is, whether the remote service
\* answered, the cache answered or the call raised: the records of the
\* cache after the call are the records before it.
C28_VerifyKeepsCache ==
  [][(pc = "idle" /\ pc' = "done" /\ op' = "verify") => rows' = rows]_vars

\* C28 witness: a verify answered by the remote service has ended on a cache
\* that holds a record of the hash asked, reported otherwise by the service
C28_Witness ==
  /\ VerifyReturned /\ result.source = "remote"
  /\ hashes = << <<"a","b">> >>
  /\ result.results[1].status = "revoked"
  /\ CacheGet(rows, <<"a","b">>) # None
  /\ CacheGet(rows, <<"a","b">>).status = Val("verified")

\* the places of a dataset whose file entry gives a digest but lacks the
\* status or the filename
LacksOptional(flat) ==
  { i \in 1..Len(flat) :
      /\ Truthy(flat[i].file_entry.sha256)
      /\ (flat[i].file_entry.status = Missing \/ flat[i].file_entry.filename = Missing) }

\* C29: a file entry without a status is stored with status "verified", a
\* file entry without a filename is stored with a null filename; such
\* entries are upserted and counted like the others.
C29_OptionalFieldsTolerated ==
  LoadReturned =>
    LET flat == Flatten(dataset.plugins)
    IN /\ ret = Cardinality({ i \in 1..Len(flat) : Truthy(flat[i].file_entry.sha256) })
       /\ \A i \in LacksOptional(flat) :
            LET e == flat[i].file_entry
                stored == CacheGet(rows, e.sha256.v)
                last == \A j \in Occurrences(flat, Lower(e.sha256.v)) : j <= i
            IN /\ stored # None
               /\ last =>
                    /\ stored.name = flat[i].plugin.name.v
                    /\ (e.status = Missing) => (stored.status = Val("verified"))
                    /\ (e.status # Missing) => (stored.status = e.status)
                    /\ (e.filename = Missing) => (stored.filename = Null)
                    /\ (e.filename # Missing) => (stored.filename = e.filename)

\* C29 witness: a load of an entry without a status and then an entry
\* without a filename has ended, both counted, the record read back has the
\* null filename of the second
C29_Witness ==
  /\ LoadReturned /\ ret = 2
  /\ LET flat == Flatten(dataset.plugins)
     IN /\ Len(flat) = 2
        /\ LacksOptional(flat) = {1, 2}
        /\ flat[1].file_entry.status = Missing
        /\ flat[2].file_entry.filename = Missing
        /\ CacheGet(rows, <<"a","b">>) # None
        /\ CacheGet(rows, <<"a","b">>).filename = Null

\* a scan_directory has ended
ScanDirectoryDone == pc = "done" /\ op = "scan_directory"

\* the .dll files of the scanned tree: the files, at any depth, whose name
\* ends in ".dll" under the case rule of the file system
DllFilesOf(fs) ==
  { f \in fs.tree :
      LET name == NormCase(f.path[Len(f.path)], fs.case_sensitive)
      IN Len(name) >= 4 /\ [i \in 1..4 |-> name[Len(name) - 4 + i]] = <<".", "d", "l", "l">> }

\* the entries scan_directory returned for the file f
EntriesOf(f) == { i \in 1..Len(result) : result[i].path = PathStr(f.path) }

\* every returned entry is that of a .dll file of the tree, has the four
\* keys, names the file, gives its size and the digest hash_file gives
EntriesAreDllFiles ==
  \A i \in 1..Len(result) :
    /\ DOMAIN result[i] = {"filename", "path", "sha256", "size_bytes"}
    /\ \E f \in DllFilesOf(env) :
         /\ result[i].path = PathStr(f.path)
         /\ result[i].filename = f.path[Len(f.path)]
         /\ result[i].size_bytes = Len(f.content)
         /\ result[i].sha256 = HashFile(env.tree, ScanRoot, ScanRoot \o f.path).value
         /\ result[i].sha256 = HexDigest(f.content)

\* C30 as stated: scan_directory returns exactly one entry for each .dll
\* file at any depth of the directory and none for other files, each entry
\* with filename, path, sha256 and size_bytes, its sha256 that of hash_file.
C30_OneEntryPerDllFile ==
  ScanDirectoryDone =>
    /\ \A f \in DllFilesOf(env) : Cardinality(EntriesOf(f)) = 1
    /\ EntriesAreDllFiles

\* C30, amended: scan_directory returns exactly one entry for each .dll
\* file at any depth of the directory that hash_file can read, and none for
\* other files or for .dll files it cannot read; each entry has filename,
\* path, sha256 and size_bytes, its sha256 that of hash_file on the file.
C30_OneEntryPerReadableDllFile ==
  ScanDirectoryDone =>
    /\ \A f \in DllFilesOf(env) :
         Cardinality(EntriesOf(f)) = (IF f.readable THEN 1 ELSE 0)
    /\ EntriesAreDllFiles
    /\ (DllFilesOf(env) = {}) => (result = <<>>)

\* C30 witness: a scan has ended over an a.dll in the directory that cannot
\* be read and an a.dll two directories below that can; the one entry
\* returned is that of the second
C30_Witness ==
  /\ ScanDirectoryDone /\ Len(result) = 1
  /\ \E f, g \in env.tree :
       /\ f.path = <<NameADll>> /\ ~f.readable
       /\ g.path = <<NameSub, NameDeep, NameADll>> /\ g.readable
       /\ result[1].path = PathStr(g.path)
       /\ result[1].sha256 = HexDigest(g.content)

\* the answer has status 200 and a body that is no JSON, or whose results
\* hold an item without hash or status or with a plugin without name or
\* nexusId
Malformed200(response) ==
  /\ response.kind = "http" /\ response.status_code = 200
  /\ \/ response.body.json = "invalid"
     \/ /\ response.body.json = "object"
        /\ response.body.results.k = "val"
        /\ \E j \in 1..Len(response.body.results.v) :
             ItemRaises(response.body.results.v[j])

\* C31: when the remote answers 200 with a malformed body, verify does not
\* raise: it falls back and returns the answer of the cache.
C31_MalformedBodyFallsBack ==
  (VerifyDone /\ hashes # <<>> /\ Malformed200(env.wire))
  => (raised = "none" /\ result.source = "cached" /\ last_source = "cached")

\* the scan threads that have not ended
ActiveThreads == { t \in DOMAIN threads : threads[t].at # "ended" }

\* C32: at most one scan thread is active at any time, and is_scanning is
\* not false while a scan thread is still running, on every path of
\* _scan_thread, the early returns included.
C32_OneScanThread ==
  /\ Cardinality(ActiveThreads) <= 1
  /\ ~is_scanning => ActiveThreads = {}

\* C33: every started scan thread ends, having reset is_scanning and queued
\* the callback that enables the Scan button, whatever the outcome; a
\* queued callback is run, and is_scanning does not stay true.
C33_ScanEventuallyFinishes ==
  /\ \A t \in 1..MaxScans :
       (t \in DOMAIN threads)
         ~> (/\ t \in DOMAIN threads
             /\ threads[t].at = "ended"
             /\ threads[t].resets = 1
             /\ threads[t].scheduled = 1)
  /\ is_scanning ~> ~is_scanning
  /\ (events # <<>>) ~> (scan_btn = "normal")

\* C33 witness: a scan whose api.scan raised an unexpected exception has
\* ended, the window is ready for the next scan
C33_Witness ==
  /\ \E t \in DOMAIN threads :
       /\ threads[t].at = "ended" /\ threads[t].outcome = "exception"
       /\ threads[t].resets = 1 /\ threads[t].scheduled = 1
  /\ ActiveThreads = {}
  /\ ~is_scanning /\ scan_btn = "normal" /\ events = <<>>

\* C34: a load that fails, also part-way through the dataset after entries
\* were upserted, leaves the cache as it was before the call.
C34_FailedLoadChangesNothing ==
  (SyncDone /\ raised # "none") => rows = before

\* C34 witness: a load has failed on a plugin without name that follows a
\* complete plugin whose entry the cache did not hold, and does not hold now
C34_Witness ==
  /\ SyncDone /\ raised = "KeyError" /\ rows # {}
  /\ Len(dataset.plugins) = 2
  /\ dataset.plugins[1].name # Missing /\ dataset.plugins[1].nexusId # Missing
  /\ Len(dataset.plugins[1].files) = 1
  /\ dataset.plugins[1].files[1].sha256 = Val(<<"a","b">>)
  /\ CacheGet(rows, <<"a","b">>) = None

\* the digests the dataset of the ended load gives, in lower case
DatasetDigests ==
  IF dataset.file # "ok" THEN {}
  ELSE LET flat == Flatten(dataset.plugins)
       IN { Lower(flat[i].file_entry.sha256.v) :
              i \in { j \in 1..Len(flat) : Truthy(flat[j].file_entry.sha256) } }

\* C35: a load removes no record: count() after it is at least count()
\* before it, every hash stored before is stored after, and a record whose
\* hash the dataset does not list is unchanged; clear() removes them all.
C35_LoadNeverRemoves ==
  /\ SyncDone =>
       /\ Count(rows) >= Count(before)
       /\ \A r \in before :
            /\ CacheGet(rows, r.sha256) # None
            /\ r.sha256 \notin DatasetDigests => r \in rows
  /\ (pc = "done" /\ op = "clear") => Count(rows) = 0

\* C35 witness: a load of a dataset that lists one hash has ended on a cache
\* that held another hash as revoked, and holds it as revoked still
C35_Witness ==
  /\ SyncDone /\ raised = "none" /\ ret = 1
  /\ DatasetDigests = { <<"a","b">> }
  /\ Count(before) = 1 /\ Count(rows) = 2
  /\ CacheGet(before, <<"c","1">>) # None
  /\ CacheGet(rows, <<"c","1">>) # None
  /\ CacheGet(rows, <<"c","1">>).status = Val("revoked")

\* a HybridVerifier() has ended
ConstructDone == pc = "done" /\ op = "construct"

\* every entry of a result is unknown, without plugin
AllUnknown(r) ==
  /\ r.unknown = Len(r.results) /\ r.verified = 0 /\ r.revoked = 0
  /\ \A j \in 1..Len(r.results) :
       r.results[j].status = "unknown" /\ r.results[j].plugin = None

\* C36: HybridVerifier() without a cache does not raise when the golden-set
\* file is missing; it loads the dataset only into an empty cache; with the
\* file missing an empty cache stays empty, and a fallback verify after it
\* reports every hash as unknown.
C36_ConstructWithoutGoldenSet ==
  ConstructDone =>
    /\ dataset.file = "missing" => (raised = "none" /\ rows = before)
    /\ before # {} => (raised = "none" /\ rows = before /\ ret = 0)
    /\ (dataset.file = "missing" /\ before = {}) =>
         /\ Count(rows) = 0
         /\ \A hs \in SeqUpTo(HashInputs, MaxBatch) \ {<<>>}, w \in FailingWires :
              LET v == VerifyCall(rows, last_source, hs,
                                  [wire |-> w, registry |-> NoRegistry,
                                   order |-> NoOrder])
              IN v.raised = "none" /\ v.result.source = "cached"
                 /\ AllUnknown(v.result)

\* C36 witness: a verifier has been constructed over an empty cache with
\* the golden-set file missing
C36_Witness ==
  /\ ConstructDone /\ dataset.file = "missing" /\ before = {}
  /\ raised = "none" /\ Count(rows) = 0

\* an export_for_kv has ended
ExportDone == pc = "done" /\ op = "export"

\* what a bulk upload of the exported entries leaves under a key: the value
\* of the last entry with that key
Uploaded(key) ==
  result[CHOOSE i \in 1..Len(result) :
           result[i].key = key /\ \A j \in 1..Len(result) : result[j].key = key => j <= i].value

\* C37: for one dataset the hashes export_for_kv gives keys for are the
\* hashes load_from_golden_set stores, with the same name, nexusId, filename
\* and status for each, whatever the letter case of the hash in the dataset.
C37_ExportAgreesWithCache ==
  (ExportDone /\ dataset.file = "ok")
  => LET loaded == LoadFromGoldenSet({}, dataset)
     IN /\ raised = loaded.raised
        /\ { result[i].key.hash : i \in 1..Len(result) }
             = { r.sha256 : r \in loaded.tbl }
        /\ \A r \in loaded.tbl :
             \E i \in 1..Len(result) :
               /\ result[i].key.hash = r.sha256
               /\ Uploaded(result[i].key).name = Val(r.name)
               /\ Uploaded(result[i].key).nexusId = Val(r.nexus_id)
               /\ Uploaded(result[i].key).filename = r.filename
               /\ Uploaded(result[i].key).status = r.status

====
